---- MODULE Spec2Model ----
(***************************************************************************)
(* Model of the eventos-madrid extraction pipeline: the LangGraph          *)
(* orchestrator (backend/agents/orchestrator.py), its three agents         *)
(* (scraping_agent.py, processing_agent.py, supervisor_agent.py) and the   *)
(* event normalizer (backend/services/event_normalizer.py).                *)
(*                                                                         *)
(* Python strings are sequences of one-character strings, so that          *)
(* startswith, upper, replace and float() are computed, not assumed.       *)
(* Python dicts are functions whose DOMAIN is the set of present keys.     *)
(* Python values are tagged records: [t |-> "str", s |-> chars],           *)
(* [t |-> "none"], [t |-> "num", n |-> Int], [t |-> "date", ...].          *)
(***************************************************************************)
EXTENDS Integers, Sequences, FiniteSets, TLC

(***************************************************************************)
(* Bounds of the model                                                     *)
(***************************************************************************)
\* longest scraped_data list the scraping agent returns
MaxScraped == 2
\* most "Error parsing step" entries _parse_intelligent_output records
MaxStepErrors == 3
\* largest configured criteria.min_events
MaxMinEvents == 2

(***************************************************************************)
(* Strings                                                                 *)
(***************************************************************************)
\* cased letters: the ASCII alphabet and the Spanish accented letters
LowerAlpha == <<"a","b","c","d","e","f","g","h","i","j","k","l","m",
                "n","o","p","q","r","s","t","u","v","w","x","y","z",
                "á","é","í","ó","ú","ñ">>
UpperAlpha == <<"A","B","C","D","E","F","G","H","I","J","K","L","M",
                "N","O","P","Q","R","S","T","U","V","W","X","Y","Z",
                "Á","É","Í","Ó","Ú","Ñ">>
Digits == <<"0","1","2","3","4","5","6","7","8","9">>

InSeq(c, q) == \E i \in 1..Len(q) : q[i] = c
IndexIn(c, q) == CHOOSE i \in 1..Len(q) : q[i] = c

\* str.upper() one character at a time
upper_char(c) == IF InSeq(c, LowerAlpha) THEN UpperAlpha[IndexIn(c, LowerAlpha)] ELSE c
upper(s) == [i \in 1..Len(s) |-> upper_char(s[i])]

\* str.lower()
lower_char(c) == IF InSeq(c, UpperAlpha) THEN LowerAlpha[IndexIn(c, UpperAlpha)] ELSE c
lower(s) == [i \in 1..Len(s) |-> lower_char(s[i])]

\* str.startswith(prefix)
startswith(s, p) == Len(s) >= Len(p) /\ SubSeq(s, 1, Len(p)) = p

\* substring test: needle in s
contains(s, needle) ==
    \E i \in 1..(Len(s) - Len(needle) + 1) : SubSeq(s, i, i + Len(needle) - 1) = needle

\* str.replace(old, new): leftmost non-overlapping occurrences, old non-empty
RECURSIVE replace(_, _, _)
replace(s, old, new) ==
    IF Len(s) < Len(old) THEN s
    ELSE IF SubSeq(s, 1, Len(old)) = old
         THEN new \o replace(SubSeq(s, Len(old) + 1, Len(s)), old, new)
         ELSE <<s[1]>> \o replace(SubSeq(s, 2, Len(s)), old, new)

IsSpace(c) == c = " "

\* str.strip()
RECURSIVE lstrip(_)
lstrip(s) == IF s # <<>> /\ IsSpace(s[1]) THEN lstrip(Tail(s)) ELSE s
RECURSIVE rstrip(_)
rstrip(s) == IF s # <<>> /\ IsSpace(s[Len(s)]) THEN rstrip(SubSeq(s, 1, Len(s) - 1)) ELSE s
strip(s) == rstrip(lstrip(s))

IsDigit(c) == InSeq(c, Digits)
DigitVal(c) == IndexIn(c, Digits) - 1
AllDigits(s) == \A i \in 1..Len(s) : IsDigit(s[i])

\* value of a run of decimal digits
RECURSIVE DecVal(_)
DecVal(s) == IF s = <<>> THEN 0 ELSE DecVal(SubSeq(s, 1, Len(s) - 1)) * 10 + DigitVal(s[Len(s)])

(***************************************************************************)
(* Python values                                                           *)
(***************************************************************************)
Str(s) == [t |-> "str", s |-> s]
PyNone == [t |-> "none"]
Num(n) == [t |-> "num", n |-> n]
IsStr(v) == v.t = "str"

\* dict.get(key) with the default None, and dict.get(key, default)
Get(d, k) == IF k \in DOMAIN d THEN d[k] ELSE PyNone
GetDefault(d, k, dflt) == IF k \in DOMAIN d THEN d[k] ELSE dflt

\* Python truthiness of a value
Truthy(v) ==
    CASE v.t = "none" -> FALSE
      [] v.t = "str" -> v.s # <<>>
      [] v.t = "num" -> v.n # 0
      [] v.t = "dict" -> DOMAIN v.d # {}
      [] OTHER -> TRUE

(***************************************************************************)
(* EventNormalizer (backend/services/event_normalizer.py)                  *)
(***************************************************************************)
\* a Python exception escaping an operator
Raised == [t |-> "raised"]
Date(y, m, d) == [t |-> "date", y |-> y, m |-> m, d |-> d]
Dict(d) == [t |-> "dict", d |-> d]
EmptyDict == <<>>

sCultura == <<"C","u","l","t","u","r","a">>
sDeporte == <<"D","e","p","o","r","t","e"," ","y"," ","S","a","l","u","d">>
sFormacion == <<"F","o","r","m","a","c","i","ó","n">>
sCine == <<"C","i","n","e">>
sPaseos == <<"P","a","s","e","o","s"," ","y"," ","E","x","c","u","r","s","i","o","n","e","s">>
sOcio == <<"O","c","i","o"," ","y"," ","S","o","c","i","a","l">>
CATEGORIAS_VALIDAS == <<sCultura, sDeporte, sFormacion, sCine, sPaseos, sOcio>>

\* keyword table, in the dict's insertion order
CATEGORIA_KEYWORDS ==
    << <<sCultura, << <<"t","e","a","t","r","o">>, <<"m","ú","s","i","c","a">>,
                      <<"c","o","n","c","i","e","r","t","o">>, <<"m","u","s","e","o">>,
                      <<"e","x","p","o","s","i","c","i","ó","n">>, <<"c","u","l","t","u","r","a">>,
                      <<"a","r","t","e">>, <<"ó","p","e","r","a">> >> >>,
       <<sDeporte, << <<"d","e","p","o","r","t","e">>, <<"g","i","m","n","a","s","i","a">>,
                      <<"c","a","m","i","n","a","r">>, <<"s","a","l","u","d">>,
                      <<"e","j","e","r","c","i","c","i","o">>, <<"f","í","s","i","c","o">>,
                      <<"y","o","g","a">>, <<"p","i","l","a","t","e","s">> >> >>,
       <<sFormacion, << <<"t","a","l","l","e","r">>, <<"c","u","r","s","o">>,
                        <<"c","h","a","r","l","a">>, <<"c","o","n","f","e","r","e","n","c","i","a">>,
                        <<"f","o","r","m","a","c","i","ó","n">>, <<"a","p","r","e","n","d","e","r">>,
                        <<"e","d","u","c","a","c","i","ó","n">> >> >>,
       <<sCine, << <<"c","i","n","e">>, <<"p","e","l","í","c","u","l","a">>, <<"f","i","l","m">>,
                   <<"d","o","c","u","m","e","n","t","a","l">>,
                   <<"p","r","o","y","e","c","c","i","ó","n">>,
                   <<"c","o","r","t","o","m","e","t","r","a","j","e">> >> >>,
       <<sPaseos, << <<"p","a","s","e","o">>, <<"e","x","c","u","r","s","i","ó","n">>,
                     <<"v","i","s","i","t","a">>, <<"r","u","t","a">>,
                     <<"s","e","n","d","e","r","i","s","m","o">>, <<"p","a","r","q","u","e">>,
                     <<"j","a","r","d","í","n">> >> >>,
       <<sOcio, << <<"f","i","e","s","t","a">>, <<"e","n","c","u","e","n","t","r","o">>,
                   <<"s","o","c","i","a","l">>, <<"b","a","i","l","e">>, <<"j","u","e","g","o","s">>,
                   <<"t","e","r","t","u","l","i","a">>, <<"a","c","t","i","v","i","d","a","d">> >> >> >>

IsLetter(c) == InSeq(c, LowerAlpha) \/ InSeq(c, UpperAlpha)

\* re.sub(r"\s+", " ", s): every run of whitespace becomes one space
collapse_ws(s) ==
    LET \* the characters with their positions; a run of spaces keeps its first one
        at == [i \in 1..Len(s) |-> [i |-> i, c |-> IF IsSpace(s[i]) THEN " " ELSE s[i]]]
        kept == SelectSeq(at, LAMBDA x : ~(IsSpace(x.c) /\ x.i > 1 /\ IsSpace(s[x.i - 1])))
    IN [k \in 1..Len(kept) |-> kept[k].c]

\* str.title(): a letter after a letter is lowered, any other letter is raised
title(s) ==
    [i \in 1..Len(s) |->
        IF i > 1 /\ IsLetter(s[i - 1]) THEN lower_char(s[i]) ELSE upper_char(s[i])]

sEllipsis == <<".", ".", ".">>
TitleMaxLen == 200
TitleKeep == 197

\* s[:keep] + "..." when s is longer than maxlen
Truncate(s, maxlen, keep) ==
    IF Len(s) > maxlen THEN SubSeq(s, 1, keep) \o sEllipsis ELSE s

_normalize_title(titulo) ==
    IF titulo = <<>> THEN <<>>
    ELSE Truncate(title(collapse_ws(strip(titulo))), TitleMaxLen, TitleKeep)

sGratis == <<"G","r","a","t","i","s">>
sConsultar == <<"C","o","n","s","u","l","t","a","r"," ","p","r","e","c","i","o">>
sEuro == <<"€">>
free_words == << <<"g","r","a","t","i","s">>, <<"g","r","a","t","u","i","t","o">>,
                 <<"l","i","b","r","e">>, <<"s","i","n"," ","c","o","s","t","e">>,
                 <<"e","n","t","r","a","d","a"," ","l","i","b","r","e">>,
                 <<"f","r","e","e">> >>
PriceKeepLen == 20

\* length of the maximal run of digits at the head of s
RECURSIVE DigitRun(_)
DigitRun(s) == IF s # <<>> /\ IsDigit(s[1]) THEN 1 + DigitRun(Tail(s)) ELSE 0

\* first match of (\d+(?:[,\.]\d{1,2})?) in s, or <<>> when there is none
RECURSIVE first_number(_)
first_number(s) ==
    IF s = <<>> THEN <<>>
    ELSE IF ~IsDigit(s[1]) THEN first_number(Tail(s))
    ELSE LET n == DigitRun(s)
             rest == SubSeq(s, n + 1, Len(s))
             frac == IF Len(rest) >= 2 /\ rest[1] \in {",", "."} /\ IsDigit(rest[2])
                     THEN IF Len(rest) >= 3 /\ IsDigit(rest[3]) THEN 3 ELSE 2
                     ELSE 0
         IN SubSeq(s, 1, n + frac)

\* variant: a number in the text wins over a free word
PriceText_number_first(precio, precio_lower, numbers) ==
    IF numbers # <<>>
    THEN replace(numbers, <<",">>, <<".">>) \o sEuro
    ELSE IF \E i \in 1..Len(free_words) : contains(precio_lower, free_words[i])
         THEN sGratis
         ELSE IF Len(precio) < PriceKeepLen THEN precio ELSE sConsultar
\* the branches of _normalize_price once precio is known to be a non-empty string
PriceText(precio, precio_lower, numbers) ==
    IF \E i \in 1..Len(free_words) : contains(precio_lower, free_words[i])
    THEN sGratis
    ELSE IF numbers # <<>>
         THEN replace(numbers, <<",">>, <<".">>) \o sEuro
         ELSE IF Len(precio) < PriceKeepLen THEN precio ELSE sConsultar

\* precio is the value of evento.get("precio", "")
_normalize_price(precio) ==
    IF ~Truthy(precio) THEN Str(sGratis)
    ELSE IF ~IsStr(precio) THEN Raised
    ELSE Str(PriceText(precio.s, strip(lower(precio.s)), first_number(precio.s)))

\* str(value) as an f-string renders it, for the values a title or description takes
sNone == <<"N","o","n","e">>
Pad2(n) == <<Digits[((n \div 10) % 10) + 1], Digits[(n % 10) + 1]>>
Pad4(n) == <<Digits[((n \div 1000) % 10) + 1], Digits[((n \div 100) % 10) + 1]>> \o Pad2(n % 100)
isoformat(d) == Pad4(d.y) \o <<"-">> \o Pad2(d.m) \o <<"-">> \o Pad2(d.d)
RECURSIVE IntStr(_)
IntStr(n) == IF n < 10 THEN <<Digits[n + 1]>> ELSE IntStr(n \div 10) \o <<Digits[(n % 10) + 1]>>
Format(v) ==
    CASE v.t = "str" -> v.s
      [] v.t = "none" -> sNone
      [] v.t = "date" -> isoformat(v)
      [] v.t = "num" -> IF v.n < 0 THEN <<"-">> \o IntStr(-v.n) ELSE IntStr(v.n)
      [] OTHER -> <<"{", "}">>

\* first category of the keyword table with a keyword inside texto, or <<>>
RECURSIVE infer_category(_, _)
infer_category(texto, table) ==
    IF table = <<>> THEN <<>>
    ELSE IF \E i \in 1..Len(table[1][2]) : contains(texto, table[1][2][i])
         THEN table[1][1]
         ELSE infer_category(texto, Tail(table))

\* the category kept, inferred (inferred # <<>>) or defaulted
\* variant: the given category is never looked at
CategoryOf_always_inferred(categoria_actual, inferred) ==
    IF inferred # <<>> THEN Str(inferred) ELSE Str(sOcio)
CategoryOf(categoria_actual, inferred) ==
    IF IsStr(categoria_actual) /\ InSeq(categoria_actual.s, CATEGORIAS_VALIDAS)
    THEN categoria_actual
    ELSE IF inferred # <<>> THEN Str(inferred) ELSE Str(sOcio)

_normalize_category(evento) ==
    CategoryOf(GetDefault(evento, "categoria", Str(<<>>)),
               infer_category(lower(Format(GetDefault(evento, "titulo", Str(<<>>)))
                                    \o <<" ">>
                                    \o Format(GetDefault(evento, "descripcion", Str(<<>>)))),
                              CATEGORIA_KEYWORDS))

\* ---- dates ----
IsLeap(y) == (y % 4 = 0 /\ y % 100 # 0) \/ y % 400 = 0
DaysInMonth(y, m) ==
    IF m = 2 THEN (IF IsLeap(y) THEN 29 ELSE 28)
    ELSE IF m \in {4, 6, 9, 11} THEN 30 ELSE 31
\* datetime.date(y, m, d) accepts exactly the calendar dates of years 1..9999
ValidDate(y, m, d) ==
    /\ y >= 1 /\ y <= 9999
    /\ m >= 1 /\ m <= 12
    /\ d >= 1 /\ d <= DaysInMonth(y, m)

\* split s at every occurrence of the character sep
RECURSIVE split(_, _)
split(s, sep) ==
    IF ~InSeq(sep, s) THEN <<s>>
    ELSE LET i == CHOOSE k \in 1..Len(s) : s[k] = sep /\ \A j \in 1..(k - 1) : s[j] # sep
         IN <<SubSeq(s, 1, i - 1)>> \o split(SubSeq(s, i + 1, Len(s)), sep)

\* strptime directives: %d and %m take one or two digits, %Y four, %y two
IsDayField(p) == Len(p) \in {1, 2} /\ AllDigits(p) /\ DecVal(p) >= 1 /\ DecVal(p) <= 31
IsMonthField(p) == Len(p) \in {1, 2} /\ AllDigits(p) /\ DecVal(p) >= 1 /\ DecVal(p) <= 12
IsYear4Field(p) == Len(p) = 4 /\ AllDigits(p)
IsYear2Field(p) == Len(p) = 2 /\ AllDigits(p)
\* %y: 69..99 are 1969..1999, 00..68 are 2000..2068
Year2(n) == IF n >= 69 THEN 1900 + n ELSE 2000 + n

MakeDate(y, m, d) == IF ValidDate(y, m, d) THEN Date(y, m, d) ELSE PyNone

\* datetime.strptime(s, "%d<sep>%m<sep>%Y").date() on the fields p of s,
\* PyNone on ValueError
fields_dmY(p) ==
    IF Len(p) = 3 /\ IsDayField(p[1]) /\ IsMonthField(p[2]) /\ IsYear4Field(p[3])
    THEN MakeDate(DecVal(p[3]), DecVal(p[2]), DecVal(p[1])) ELSE PyNone
fields_dmy(p) ==
    IF Len(p) = 3 /\ IsDayField(p[1]) /\ IsMonthField(p[2]) /\ IsYear2Field(p[3])
    THEN MakeDate(Year2(DecVal(p[3])), DecVal(p[2]), DecVal(p[1])) ELSE PyNone
fields_Ymd(p) ==
    IF Len(p) = 3 /\ IsYear4Field(p[1]) /\ IsMonthField(p[2]) /\ IsDayField(p[3])
    THEN MakeDate(DecVal(p[1]), DecVal(p[2]), DecVal(p[3])) ELSE PyNone
strptime_dmY(s, sep) == fields_dmY(split(s, sep))
strptime_dmy(s, sep) == fields_dmy(split(s, sep))
strptime_Ymd(s, sep) == fields_Ymd(split(s, sep))

\* month names of the C locale, which %B and %b match case-insensitively
MonthNames == << <<"j","a","n","u","a","r","y">>, <<"f","e","b","r","u","a","r","y">>,
                 <<"m","a","r","c","h">>, <<"a","p","r","i","l">>, <<"m","a","y">>,
                 <<"j","u","n","e">>, <<"j","u","l","y">>, <<"a","u","g","u","s","t">>,
                 <<"s","e","p","t","e","m","b","e","r">>, <<"o","c","t","o","b","e","r">>,
                 <<"n","o","v","e","m","b","e","r">>, <<"d","e","c","e","m","b","e","r">> >>
AbbrLen == 3
MonthName(i, abbr) == IF abbr THEN SubSeq(MonthNames[i], 1, AbbrLen) ELSE MonthNames[i]
fields_dBY(p, abbr) ==
    IF /\ Len(p) = 5 /\ p[2] = <<"d","e">> /\ p[4] = <<"d","e">>
       /\ IsDayField(p[1]) /\ IsYear4Field(p[5])
       /\ \E i \in 1..Len(MonthNames) : lower(p[3]) = MonthName(i, abbr)
    THEN MakeDate(DecVal(p[5]),
                  CHOOSE i \in 1..Len(MonthNames) : lower(p[3]) = MonthName(i, abbr),
                  DecVal(p[1]))
    ELSE PyNone
\* "%d de %B de %Y" (abbr FALSE) and "%d de %b de %Y" (abbr TRUE)
strptime_dBY(s, abbr) == fields_dBY(split(s, " "), abbr)

DateSeps == {"/", "-", "."}
\* (\d{1,2})[\/\-\.](\d{1,2})[\/\-\.](\d{4}) matched at the head of s:
\* <<day, month, year>> digit strings, or <<>>
regex_date_at(s) ==
    LET n1 == IF Len(s) >= 3 /\ IsDigit(s[1]) /\ IsDigit(s[2]) /\ s[3] \in DateSeps THEN 2
              ELSE IF Len(s) >= 2 /\ IsDigit(s[1]) /\ s[2] \in DateSeps THEN 1 ELSE 0
        r == SubSeq(s, n1 + 2, Len(s))
        n2 == IF Len(r) >= 3 /\ IsDigit(r[1]) /\ IsDigit(r[2]) /\ r[3] \in DateSeps THEN 2
              ELSE IF Len(r) >= 2 /\ IsDigit(r[1]) /\ r[2] \in DateSeps THEN 1 ELSE 0
        q == SubSeq(r, n2 + 2, Len(r))
    IN IF n1 > 0 /\ n2 > 0 /\ Len(q) >= 4 /\ AllDigits(SubSeq(q, 1, 4))
       THEN <<SubSeq(s, 1, n1), SubSeq(r, 1, n2), SubSeq(q, 1, 4)>>
       ELSE <<>>
\* re.search: the match at the leftmost position that has one
RECURSIVE regex_date_search(_)
regex_date_search(s) ==
    IF s = <<>> THEN <<>>
    ELSE IF regex_date_at(s) # <<>> THEN regex_date_at(s)
    ELSE regex_date_search(Tail(s))

\* the first format of the list that parses wins; g is the regex fallback's match
FirstParsed(tries, g) ==
    IF \E i \in 1..Len(tries) : tries[i] # PyNone
    THEN tries[CHOOSE i \in 1..Len(tries) :
                 tries[i] # PyNone /\ \A j \in 1..(i - 1) : tries[j] = PyNone]
    ELSE IF g # <<>> THEN MakeDate(DecVal(g[3]), DecVal(g[2]), DecVal(g[1]))
    ELSE PyNone
\* the formats, in the order of the list `formatos`
ParseStripped(s) ==
    FirstParsed(<< strptime_dmY(s, "/"), strptime_dmY(s, "-"), strptime_dmY(s, "."),
                   strptime_dmy(s, "/"), strptime_dmy(s, "-"), strptime_dmy(s, "."),
                   strptime_Ymd(s, "-"), strptime_Ymd(s, "/"),
                   strptime_dBY(s, FALSE), strptime_dBY(s, TRUE) >>,
                regex_date_search(s))
_parse_date_string(fecha) == ParseStripped(strip(fecha))

_normalize_date(fecha) ==
    IF ~Truthy(fecha) THEN PyNone
    ELSE IF fecha.t = "date" THEN fecha
    ELSE IF fecha.t = "str" THEN _parse_date_string(fecha.s)
    ELSE PyNone

LocationMaxLen == 150
LocationKeep == 147
\* " ".join(ubicacion.split()) is strip + whitespace collapsing
_normalize_location(ubicacion) ==
    IF ubicacion = <<>> THEN <<>>
    ELSE Truncate(title(collapse_ws(strip(ubicacion))), LocationMaxLen, LocationKeep)

DescriptionMaxLen == 1000
DescriptionKeep == 997
\* re.sub(r"<[^>]+>", "", s): drop every "<" ... ">" with at least one character inside
RECURSIVE strip_tags(_)
strip_tags(s) ==
    IF s = <<>> THEN <<>>
    ELSE IF s[1] = "<" /\ Len(s) >= 3 /\ s[2] # ">" /\ \E k \in 3..Len(s) : s[k] = ">"
         THEN LET k == CHOOSE k \in 3..Len(s) : s[k] = ">" /\ \A j \in 3..(k - 1) : s[j] # ">"
              IN strip_tags(SubSeq(s, k + 1, Len(s)))
         ELSE <<s[1]>> \o strip_tags(Tail(s))
_normalize_description(descripcion) ==
    IF descripcion = <<>> THEN <<>>
    ELSE Truncate(collapse_ws(strip(strip_tags(descripcion))),
                  DescriptionMaxLen, DescriptionKeep)

\* ---- dicts ----
\* d[k] = v
Put(d, k, v) == [x \in (DOMAIN d) \cup {k} |-> IF x = k THEN v ELSE d[x]]

\* mapeo_campos is the list of the dict's items, in insertion order: each item is
\* <<campo_origen, parts>>, parts being campo_destino.split(".")
MappedKeys(mapeo_campos) == {mapeo_campos[i][1] : i \in 1..Len(mapeo_campos)}

\* evento_mapeado["datos_extra"][sub] = valor, creating the nested dict when absent;
\* Raised when "datos_extra" holds something that takes no item assignment
PutExtra(evento_mapeado, cur, sub, valor) ==
    IF cur.t = "dict"
    THEN Put(evento_mapeado, "datos_extra", Dict(Put(cur.d, sub, valor)))
    ELSE Raised
\* one iteration of the first loop of _apply_field_mapping
MapOne(evento_mapeado, parts, valor) ==
    IF ~Truthy(valor) THEN evento_mapeado
    ELSE IF Len(parts) > 1
         THEN IF parts[1] = "datos_extra"
              THEN PutExtra(evento_mapeado,
                            GetDefault(evento_mapeado, "datos_extra", Dict(EmptyDict)),
                            parts[2], valor)
              ELSE evento_mapeado
         ELSE Put(evento_mapeado, parts[1], valor)
\* the first loop of _apply_field_mapping, over the items of mapeo_campos
RECURSIVE apply_mapped(_, _, _)
apply_mapped(evento_mapeado, evento_raw, items) ==
    IF items = <<>> \/ evento_mapeado = Raised THEN evento_mapeado
    ELSE apply_mapped(MapOne(evento_mapeado, items[1][2], Get(evento_raw, items[1][1])),
                      evento_raw, Tail(items))

\* the raw fields the second loop keeps: not mapped, and truthy
Unmapped(evento_raw, mapeo_campos) ==
    {k \in DOMAIN evento_raw : k \notin MappedKeys(mapeo_campos) /\ Truthy(evento_raw[k])}
\* datos_extra after the second loop
MergeExtra(d, evento_raw, unmapped) ==
    [k \in (DOMAIN d) \cup unmapped |-> IF k \in unmapped THEN evento_raw[k] ELSE d[k]]
StoreExtra(evento_mapeado, datos_extra) ==
    IF DOMAIN datos_extra # {}
    THEN Put(evento_mapeado, "datos_extra", Dict(datos_extra))
    ELSE evento_mapeado
\* the second loop of _apply_field_mapping; start is evento_mapeado.get("datos_extra", {})
keep_unmapped(evento_mapeado, start, evento_raw, unmapped) ==
    IF start.t # "dict"
    THEN (IF unmapped # {} THEN Raised ELSE evento_mapeado)
    ELSE StoreExtra(evento_mapeado, MergeExtra(start.d, evento_raw, unmapped))
after_mapped(evento_mapeado, evento_raw, mapeo_campos) ==
    IF evento_mapeado = Raised THEN Raised
    ELSE keep_unmapped(evento_mapeado,
                       GetDefault(evento_mapeado, "datos_extra", Dict(EmptyDict)),
                       evento_raw, Unmapped(evento_raw, mapeo_campos))

_apply_field_mapping(evento_raw, mapeo_campos) ==
    after_mapped(apply_mapped(EmptyDict, evento_raw, mapeo_campos), evento_raw, mapeo_campos)

\* one "if evento.get(campo): evento[campo] = f(evento[campo])" step on a string field
NormStrField(evento, campo, f(_)) ==
    IF evento = Raised THEN Raised
    ELSE IF ~Truthy(Get(evento, campo)) THEN evento
    ELSE IF ~IsStr(evento[campo]) THEN Raised
    ELSE Put(evento, campo, Str(f(evento[campo].s)))

NormDateField(evento, campo) ==
    IF evento = Raised THEN Raised
    ELSE IF ~Truthy(Get(evento, campo)) THEN evento
    ELSE Put(evento, campo, _normalize_date(evento[campo]))

WithPrice(evento, precio) ==
    IF precio = Raised THEN Raised ELSE Put(evento, "precio", precio)
NormPrice(evento) ==
    IF evento = Raised THEN Raised
    ELSE WithPrice(evento, _normalize_price(GetDefault(evento, "precio", Str(<<>>))))
NormCategory(evento) ==
    IF evento = Raised THEN Raised
    ELSE Put(evento, "categoria", _normalize_category(evento))

\* the steps of _normalize_fields, innermost first; Raised once any of them raised
_normalize_fields(evento) ==
    NormStrField(
      NormStrField(
        NormDateField(
          NormDateField(
            NormCategory(NormPrice(NormStrField(evento, "titulo", _normalize_title))),
            "fecha_inicio"),
          "fecha_fin"),
        "ubicacion", _normalize_location),
      "descripcion", _normalize_description)

MinTitleLen == 3
\* variant: a title of any length is accepted
_validate_event_any_title(evento) ==
    /\ Truthy(Get(evento, "titulo"))
    /\ Truthy(Get(evento, "fecha_inicio"))
    /\ IsStr(Get(evento, "categoria"))
    /\ InSeq(evento["categoria"].s, CATEGORIAS_VALIDAS)
_validate_event(evento) ==
    /\ Truthy(Get(evento, "titulo"))
    /\ Len(evento["titulo"].s) >= MinTitleLen
    /\ Truthy(Get(evento, "fecha_inicio"))
    /\ IsStr(Get(evento, "categoria"))
    /\ InSeq(evento["categoria"].s, CATEGORIAS_VALIDAS)

\* hashlib.sha256(key_content).hexdigest(), kept symbolic: the digest of key_content
Sha256(key_content) == [t |-> "sha256", of |-> key_content]
\* variant: the price is part of the key content
_generate_hash_with_price(evento) ==
    Sha256(Format(GetDefault(evento, "titulo", Str(<<>>)))
           \o Format(GetDefault(evento, "fecha_inicio", Str(<<>>)))
           \o Format(GetDefault(evento, "ubicacion", Str(<<>>)))
           \o Format(GetDefault(evento, "precio", Str(<<>>))))
_generate_hash(evento) ==
    Sha256(Format(GetDefault(evento, "titulo", Str(<<>>)))
           \o Format(GetDefault(evento, "fecha_inicio", Str(<<>>)))
           \o Format(GetDefault(evento, "ubicacion", Str(<<>>))))

\* validation and hashing of the normalized fields; PyNone when they raised
finish_event(evento_normalizado) ==
    IF evento_normalizado = Raised THEN PyNone
    ELSE IF ~_validate_event(evento_normalizado) THEN PyNone
    ELSE Put(evento_normalizado, "hash_contenido", _generate_hash(evento_normalizado))
fields_of(mapped) == IF mapped = Raised THEN Raised ELSE _normalize_fields(mapped)

\* the normalized event, or PyNone (also when anything raised)
normalize_event(evento_raw, mapeo_campos) ==
    finish_event(fields_of(_apply_field_mapping(evento_raw, mapeo_campos)))

(***************************************************************************)
(* SupervisorAgent (backend/agents/supervisor_agent.py)                    *)
(***************************************************************************)
\* items of processed_events that are not dicts have no .get
IsDict(event) == event # Raised /\ ("t" \notin DOMAIN event)
NonDictItem == Str(<<"x">>)

\* ---- float(text) ----
\* a parsed float: neg, ip the integer part, fracnz whether the fraction is non-zero;
\* kind "inf" / "nan" for the special values; ParseError for ValueError
ParseError == [kind |-> "error"]
Finite(neg, ip, fracnz) == [kind |-> "finite", neg |-> neg, ip |-> ip, fracnz |-> fracnz]
sInf == <<"i","n","f">>
sInfinity == <<"i","n","f","i","n","i","t","y">>
sNan == <<"n","a","n">>
\* digits [ "." digits* ] or "." digits+ ; the model's texts hold no exponent or "_"
float_digits(neg, s, n, rest, frac) ==
    IF rest = <<>> /\ n > 0 THEN Finite(neg, DecVal(s), FALSE)
    ELSE IF rest # <<>> /\ rest[1] = "." /\ AllDigits(frac) /\ (n > 0 \/ frac # <<>>)
         THEN Finite(neg, DecVal(SubSeq(s, 1, n)), DecVal(frac) > 0)
    ELSE ParseError
unsigned_float(neg, s) ==
    IF lower(s) \in {sInf, sInfinity} THEN [kind |-> "inf", neg |-> neg]
    ELSE IF lower(s) = sNan THEN [kind |-> "nan"]
    ELSE float_digits(neg, s, DigitRun(s), SubSeq(s, DigitRun(s) + 1, Len(s)),
                      SubSeq(s, DigitRun(s) + 2, Len(s)))
signed_float(s) ==
    IF s = <<>> THEN ParseError
    ELSE IF s[1] = "-" THEN unsigned_float(TRUE, Tail(s))
    ELSE IF s[1] = "+" THEN unsigned_float(FALSE, Tail(s))
    ELSE unsigned_float(FALSE, s)
float(text) == signed_float(strip(text))

\* precio_num > max_price, for an integer max_price >= 0
GreaterThan(f, max_price) ==
    CASE f.kind = "finite" ->
            IF f.neg THEN FALSE
            ELSE f.ip > max_price \/ (f.ip = max_price /\ f.fracnz)
      [] f.kind = "inf" -> ~f.neg
      [] OTHER -> FALSE

sZero == <<"0">>
ExceedsMax(f, max_price) == f # ParseError /\ GreaterThan(f, max_price)
\* variant: a price that does not parse counts as too high
PriceStrTooHigh_strict(precio_str, max_price) ==
    IF ~IsStr(precio_str) THEN TRUE
    ELSE float(replace(replace(precio_str.s, sEuro, <<>>), sGratis, sZero)) = ParseError
         \/ ExceedsMax(float(replace(replace(precio_str.s, sEuro, <<>>), sGratis, sZero)),
                       max_price)
\* the try block of the price check: TRUE when "Price too high" is recorded
PriceStrTooHigh(precio_str, max_price) ==
    IF ~IsStr(precio_str) THEN FALSE
    ELSE ExceedsMax(float(replace(replace(precio_str.s, sEuro, <<>>), sGratis, sZero)),
                    max_price)
PriceTooHigh(event, max_price) ==
    PriceStrTooHigh(GetDefault(event, "precio", Str(sZero)), max_price)

\* the rejection reasons of one event, in the order the checks append them
RECURSIVE MissingFields(_, _)
MissingFields(event, required_fields) ==
    IF required_fields = <<>> THEN <<>>
    ELSE (IF ~Truthy(Get(event, required_fields[1]))
          THEN << <<"Missing field", required_fields[1]>> >> ELSE <<>>)
         \o MissingFields(event, Tail(required_fields))

CategoryRejected(event, valid_categories) ==
    /\ valid_categories # <<>>
    /\ ~(IsStr(Get(event, "categoria")) /\ InSeq(Get(event, "categoria").s, valid_categories))

Reasons(event, required_fields, valid_categories, max_price) ==
    MissingFields(event, required_fields)
    \o (IF CategoryRejected(event, valid_categories)
        THEN << <<"Invalid category", "">> >> ELSE <<>>)
    \o (IF PriceTooHigh(event, max_price)
        THEN << <<"Price too high", "">> >> ELSE <<>>)

\* is_valid starts TRUE and is cleared by each failed check
IsValidEvent(event, required_fields, valid_categories, max_price) ==
    /\ \A i \in 1..Len(required_fields) : Truthy(Get(event, required_fields[i]))
    /\ ~CategoryRejected(event, valid_categories)
    /\ ~PriceTooHigh(event, max_price)

RECURSIVE SelectValid(_, _, _, _)
SelectValid(events, required_fields, valid_categories, max_price) ==
    IF events = <<>> THEN <<>>
    ELSE (IF IsValidEvent(events[1], required_fields, valid_categories, max_price)
          THEN <<events[1]>> ELSE <<>>)
         \o SelectValid(Tail(events), required_fields, valid_categories, max_price)
RECURSIVE SelectInvalid(_, _, _, _)
SelectInvalid(events, required_fields, valid_categories, max_price) ==
    IF events = <<>> THEN <<>>
    ELSE (IF IsValidEvent(events[1], required_fields, valid_categories, max_price)
          THEN <<>>
          ELSE << [event |-> events[1],
                   reasons |-> Reasons(events[1], required_fields, valid_categories,
                                       max_price)] >>)
         \o SelectInvalid(Tail(events), required_fields, valid_categories, max_price)

MeetsMinimum(valid_events, min_events) == Len(valid_events) >= min_events

AutoResult(valid_events, invalid_events, min_events) ==
    [valid_count |-> Len(valid_events),
     invalid_count |-> Len(invalid_events),
     valid_events |-> valid_events,
     invalid_events |-> invalid_events,
     meets_minimum |-> MeetsMinimum(valid_events, min_events)]
\* the defaults of criteria.get(...) for the keys the configuration leaves out
DefaultMaxPrice == 15
DefaultMinEvents == 1
Classify(events, required_fields, valid_categories, max_price, min_events) ==
    AutoResult(SelectValid(events, required_fields, valid_categories, max_price),
               SelectInvalid(events, required_fields, valid_categories, max_price),
               min_events)
\* Raised when an item of events is not a dict (event.get raises AttributeError)
_automatic_validation(events, criteria) ==
    IF \E i \in 1..Len(events) : ~IsDict(events[i]) THEN Raised
    ELSE Classify(events,
                  GetDefault(criteria, "required_fields", <<>>),
                  GetDefault(criteria, "valid_categories", <<>>),
                  GetDefault(criteria, "max_price", DefaultMaxPrice),
                  GetDefault(criteria, "min_events", DefaultMinEvents))

sAPPROVE == <<"A","P","P","R","O","V","E">>
sREJECT == <<"R","E","J","E","C","T">>
sERROR == <<"E","R","R","O","R">>

LLMFailed == [decision |-> sERROR, reasoning |-> "LLM supervision failed"]
ParsedDecision(response, d) ==
    IF ~IsStr(d) THEN LLMFailed
    ELSE [decision |-> upper(d.s),
          reasoning |-> IF "reasoning" \in DOMAIN response
                        THEN "llm reasoning" ELSE "No reasoning provided"]
\* variant: a failed judgment call counts as an approval
_llm_supervision_fail_open(response) ==
    IF response = Raised \/ ~IsDict(response)
    THEN [decision |-> sAPPROVE, reasoning |-> "LLM supervision failed"]
    ELSE ParsedDecision(response, GetDefault(response, "decision", Str(sERROR)))

\* the judgment call: response is what chain.ainvoke does. Raised: it raised;
\* otherwise its answer, which when a dict may hold "decision" and "reasoning"
_llm_supervision(response) ==
    IF response = Raised \/ ~IsDict(response) THEN LLMFailed
    ELSE ParsedDecision(response, GetDefault(response, "decision", Str(sERROR)))

Reasoning(kind, n, txt) == [kind |-> kind, n |-> n, txt |-> txt]
NoReasoning == Reasoning("", 0, "")

\* variant: the judgment is looked at before the automatic minimum
_make_final_decision_judgment_first(auto_validation, llm_decision) ==
    IF llm_decision.decision = sAPPROVE /\ auto_validation.valid_count > 0
    THEN [status |-> "APPROVED",
          reasoning |-> Reasoning("llm", 0, llm_decision.reasoning),
          approved_events |-> auto_validation.valid_events,
          rejected_events |-> auto_validation.invalid_events]
    ELSE IF ~auto_validation.meets_minimum
    THEN [status |-> "REJECTED",
          reasoning |-> Reasoning("Does not meet minimum quality criteria", 0, ""),
          approved_events |-> <<>>,
          rejected_events |-> auto_validation.invalid_events]
    ELSE IF llm_decision.decision = sREJECT
    THEN [status |-> "REJECTED",
          reasoning |-> Reasoning("llm", 0, llm_decision.reasoning),
          approved_events |-> <<>>,
          rejected_events |-> auto_validation.invalid_events]
    ELSE [status |-> "MANUAL_REVIEW",
          reasoning |-> Reasoning("Auto: n valid. LLM:", auto_validation.valid_count,
                                  llm_decision.reasoning),
          approved_events |-> <<>>,
          rejected_events |-> <<>>]

_make_final_decision(auto_validation, llm_decision) ==
    IF ~auto_validation.meets_minimum
    THEN [status |-> "REJECTED",
          reasoning |-> Reasoning("Does not meet minimum quality criteria", 0, ""),
          approved_events |-> <<>>,
          rejected_events |-> auto_validation.invalid_events]
    ELSE IF llm_decision.decision = sAPPROVE /\ auto_validation.valid_count > 0
    THEN [status |-> "APPROVED",
          reasoning |-> Reasoning("llm", 0, llm_decision.reasoning),
          approved_events |-> auto_validation.valid_events,
          rejected_events |-> auto_validation.invalid_events]
    ELSE IF llm_decision.decision = sREJECT
    THEN [status |-> "REJECTED",
          reasoning |-> Reasoning("llm", 0, llm_decision.reasoning),
          approved_events |-> <<>>,
          rejected_events |-> auto_validation.invalid_events]
    ELSE [status |-> "MANUAL_REVIEW",
          reasoning |-> Reasoning("Auto: n valid. LLM:", auto_validation.valid_count,
                                  llm_decision.reasoning),
          approved_events |-> <<>>,
          rejected_events |-> <<>>]

\* variant: the processed events are published whatever the decision carries
apply_decision_all_processed(state, final_decision) ==
    [state EXCEPT !.supervision_decision = final_decision.status,
                  !.supervision_reasoning = final_decision.reasoning,
                  !.approved_events = state.processed_events,
                  !.rejected_events = final_decision.rejected_events]
\* the "Update state" block of supervise_quality
apply_decision(state, final_decision) ==
    [state EXCEPT !.supervision_decision = final_decision.status,
                  !.supervision_reasoning = final_decision.reasoning,
                  !.approved_events = final_decision.approved_events,
                  !.rejected_events = final_decision.rejected_events]
\* the except block of supervise_quality
supervise_except(state) ==
    [state EXCEPT !.supervision_decision = "ERROR",
                  !.supervision_reasoning = Reasoning("Supervisor error", 0, ""),
                  !.approved_events = <<>>]
decide(state, auto_validation, response) ==
    IF auto_validation = Raised THEN supervise_except(state)
    ELSE apply_decision(state,
                        _make_final_decision(auto_validation, _llm_supervision(response)))
\* supervise_quality: the state after it, for the judgment outcome `response`
supervise_quality(state, criteria, response) ==
    decide(state, _automatic_validation(state.processed_events, criteria), response)

(***************************************************************************)
(* ProcessingAgent (backend/agents/processing_agent.py)                    *)
(***************************************************************************)
Err(msg) == [msg |-> msg, i |-> -1]
ErrAt(msg, i) == [msg |-> msg, i |-> i]

OptionalToList(v) == IF v # PyNone THEN <<v>> ELSE <<>>
\* Step 1 of process_data: the events that normalize, in order
RECURSIVE NormalizeAll(_, _)
NormalizeAll(raw_data, field_mapping) ==
    IF raw_data = <<>> THEN <<>>
    ELSE OptionalToList(normalize_event(raw_data[1], field_mapping))
         \o NormalizeAll(Tail(raw_data), field_mapping)
\* ... and one "Event i: Failed normalization" per event that does not (i from 0)
RECURSIVE NormalizationErrorsFrom(_, _, _)
NormalizationErrorsFrom(raw_data, field_mapping, i) ==
    IF raw_data = <<>> THEN <<>>
    ELSE (IF normalize_event(raw_data[1], field_mapping) = PyNone
          THEN <<ErrAt("Failed normalization", i)>> ELSE <<>>)
         \o NormalizationErrorsFrom(Tail(raw_data), field_mapping, i + 1)
NormalizationErrors(raw_data, field_mapping) ==
    NormalizationErrorsFrom(raw_data, field_mapping, 0)

Ratio(num, den) == [num |-> num, den |-> den]
DefaultValidationResults ==
    [quality_score |-> Ratio(0, 1), total_extracted |-> 0,
     total_validated |-> 0, approval_rate |-> Ratio(0, 1)]

\* `n` copies of the error e
RECURSIVE Repeat(_, _)
Repeat(e, n) == IF n = 0 THEN <<>> ELSE <<e>> \o Repeat(e, n - 1)

\* json.dumps has no encoding for a datetime.date: it raises TypeError when a
\* value of an event (or of a dict inside it) is one
is_date(v) == v # Raised /\ "t" \in DOMAIN v /\ v.t = "date"
holds_date(v) ==
    \/ is_date(v)
    \/ v # Raised /\ "t" \in DOMAIN v /\ v.t = "dict" /\ \E k \in DOMAIN v.d : is_date(v.d[k])
\* variant: every value is encoded
json_dumps_any_value(obj) == [t |-> "json", len |-> Len(obj)]
\* json.dumps of a list of events
json_dumps(obj) ==
    IF \E i \in 1..Len(obj) : IsDict(obj[i]) /\ \E k \in DOMAIN obj[i] : holds_date(obj[i][k])
    THEN Raised
    ELSE [t |-> "json", len |-> Len(obj)]
\* the try block of _validate_with_llm up to the answer of chain.ainvoke: the
\* events are encoded first, and the call is made only when that did not raise
validation_call(events, answer) ==
    IF json_dumps(events) = Raised THEN Raised ELSE answer

\* variant: a failed validation returns no event
_validate_with_llm_fail_closed(events, llm) ==
    IF llm = Raised
    THEN [validated_events |-> <<>>, is_list |-> TRUE,
          validation_errors |-> <<Err("LLM validation failed")>>]
    ELSE [validated_events |-> llm.valid_events, is_list |-> llm.is_list,
          validation_errors |-> Repeat(Err("Rejected"), llm.rejected)]
\* _validate_with_llm: llm is what the try block came to. Raised: json.dumps, the
\* call or the reading of its response raised, and the normalized events are
\* returned as they are; otherwise the response: valid_events (is_list FALSE when
\* the response holds something that is no list there) and the number of
\* rejected_events entries
_validate_with_llm(events, llm) ==
    IF llm = Raised
    THEN [validated_events |-> events, is_list |-> TRUE,
          validation_errors |-> <<Err("LLM validation failed")>>]
    ELSE [validated_events |-> llm.valid_events, is_list |-> llm.is_list,
          validation_errors |-> Repeat(Err("Rejected"), llm.rejected)]

\* the result_state of process_data's normal path, or of its except block when
\* len(validated_events) raised
result_state(state, n_raw, n_normalized, normalization_errors, v) ==
    IF ~v.is_list
    THEN [state EXCEPT !.processing_errors = <<Err("Processing agent error")>>,
                       !.processed_events = <<>>]
    ELSE [state EXCEPT
            !.processed_events = v.validated_events,
            !.processing_errors = normalization_errors \o v.validation_errors,
            !.processing_metadata =
                [total_raw |-> n_raw,
                 normalized |-> n_normalized,
                 validated |-> Len(v.validated_events),
                 rejection_rate |-> Ratio(n_raw - Len(v.validated_events), n_raw)],
            !.validation_results =
                [quality_score |-> Ratio(Len(v.validated_events), n_raw),
                 total_extracted |-> n_raw,
                 total_validated |-> Len(v.validated_events),
                 approval_rate |-> Ratio(Len(v.validated_events), n_raw)]]
\* Step 2 of process_data
validate_step(normalized_events, llm) ==
    IF normalized_events # <<>>
    THEN _validate_with_llm(normalized_events, llm)
    ELSE [validated_events |-> <<>>, is_list |-> TRUE,
          validation_errors |-> <<Err("No events passed normalization")>>]
\* process_data once Step 1 has given normalized_events and normalization_errors.
\* llm is the outcome of the validation call; a valid_events that is no list makes
\* len() raise inside the try block
process_normalized(state, normalized_events, normalization_errors, llm) ==
    IF state.scraped_data = <<>>
    THEN [state EXCEPT !.processed_events = <<>>,
                       !.processing_errors = <<Err("No data to process")>>]
    ELSE result_state(state, Len(state.scraped_data), Len(normalized_events),
                      normalization_errors, validate_step(normalized_events, llm))
\* process_data: the state after it
process_data(state, field_mapping, llm) ==
    process_normalized(state, NormalizeAll(state.scraped_data, field_mapping),
                       NormalizationErrors(state.scraped_data, field_mapping), llm)

(***************************************************************************)
(* Inputs of the model                                                     *)
(***************************************************************************)
sHttp == <<"h","t","t","p",":","/","/">>
sHttps == <<"h","t","t","p","s",":","/","/">>
Urls == {Str(<<>>), Str(<<"h","t","t","p",":","/","/","a">>), Str(<<"h","t","t","p","s",":","/","/","a">>), Str(<<"f","t","p",":","/","/","a">>), Str(<<"H","T","T","P",":","/","/","a">>), PyNone}
sHTML == <<"H","T","M","L">>
sPDF == <<"P","D","F">>
sIMAGE == <<"I","M","A","G","E">>
Tipos == {Str(sHTML), Str(sPDF), Str(sIMAGE), Str(<<"h","t","m","l">>), Str(<<>>)}

\* the source's field mapping: the items of mapeo_campos
PipelineMapeo ==
    << <<"titulo", <<"titulo">> >>, <<"fecha", <<"fecha_inicio">> >>,
       <<"precio", <<"precio">> >>, <<"lugar", <<"ubicacion">> >>,
       <<"tel", <<"datos_extra", "telefono">> >> >>

\* raw records an extraction tool returns
RawYoga == [titulo |-> Str(<<" ","y","o","g","a"," "," ","e","n"," ","e","l"," ","p","a","r","q","u","e">>), fecha |-> Str(<<"1","5","/","0","7","/","2","0","2","5">>),
            precio |-> Str(<<"E","n","t","r","a","d","a"," ","l","i","b","r","e">>), lugar |-> Str(<<"c","e","n","t","r","o"," "," ","s","u","r">>)]
RawCine == [titulo |-> Str(<<"c","i","n","e"," ","d","e"," ","v","e","r","a","n","o">>), fecha |-> Str(<<"2","0","2","5","-","0","8","-","0","1">>),
            precio |-> Str(<<"2","0"," ","e","u","r","o","s">>), tel |-> Str(<<"9","1","2">>)]
RawBad == [titulo |-> Str(<<"a","b">>), fecha |-> Str(<<"p","r","o","n","t","o">>)]
\* the scraped_data lists the scraping agent may come back with
ScrapedLists ==
    {<<>>, <<RawYoga>>, <<RawCine>>, <<RawBad>>, <<RawYoga, RawCine>>,
     <<RawBad, RawYoga>>, <<RawYoga, RawYoga>>}
    \cup (IF MaxScraped >= 3 THEN {<<RawCine, RawBad, RawYoga>>} ELSE {})

\* what the validation LLM may put in "valid_events" besides events it was given
LLMInvented == [titulo |-> Str(<<"G","a","l","a">>), categoria |-> Str(<<"O","t","r","a">>), precio |-> Str(<<"3","0","€">>)]

\* the sub-list of q at the indices in S, in order
RECURSIVE Pick(_, _, _)
Pick(q, S, i) ==
    IF i > Len(q) THEN <<>>
    ELSE (IF i \in S THEN <<q[i]>> ELSE <<>>) \o Pick(q, S, i + 1)
SubLists(q) == {Pick(q, S, 1) : S \in SUBSET (1..Len(q))}

MaxRejected == 1
\* outcomes of the validation call: it raises, or answers with any list
LLMValidationOutcomes(events) ==
    {Raised}
    \cup {[valid_events |-> <<>>, is_list |-> FALSE, rejected |-> 0]}
    \cup {[valid_events |-> v, is_list |-> TRUE, rejected |-> r] :
            v \in SubLists(events) \cup {<<LLMInvented>>, events \o <<LLMInvented>>,
                                         <<NonDictItem>>},
            r \in {0, MaxRejected}}

\* outcomes of the judgment call: it raises, answers something that is no dict,
\* or answers a dict
JudgmentOutcomes ==
    {Raised, NonDictItem,
     [decision |-> Str(sAPPROVE), reasoning |-> Str(<<"o","k">>)],
     [decision |-> Str(<<"a","p","p","r","o","v","e">>), reasoning |-> Str(<<"o","k">>)],
     [decision |-> Str(sREJECT), reasoning |-> Str(<<"n","o">>)],
     [decision |-> Str(<<"R","e","j","e","c","t">>)],
     [decision |-> Str(<<"M","A","Y","B","E">>), reasoning |-> Str(<<"o","k">>)],
     [decision |-> PyNone, reasoning |-> Str(<<"o","k">>)],
     [reasoning |-> Str(<<"o","k">>)]}

PipelineCriteria ==
    {[required_fields |-> <<"titulo", "fecha_inicio", "categoria">>,
      valid_categories |-> CATEGORIAS_VALIDAS,
      max_price |-> DefaultMaxPrice,
      min_events |-> m] : m \in 0..MaxMinEvents}

(***************************************************************************)
(* ScrapingOrchestrator (backend/agents/orchestrator.py)                   *)
(***************************************************************************)
VARIABLES
    pc,        \* where the call of execute_scraping_pipeline stands
    url, tipo, \* its arguments
    criteria,  \* the supervisor's configured criteria (self.config["criteria"])
    state,     \* the ScrapingState of the run, NoState before it is created
    fault,     \* the message of the ValueError the call raised, "" if none
    visited,   \* history: the graph nodes executed so far, in order
    caught,    \* history: the except blocks that have run
    judgment,  \* history: what the supervisor's judgment call did, if it was made
    args, ret, \* arguments and return value of a function applied on its own
    eventos,   \* the committed rows of the table eventos (core/models.py)
    session,   \* the open database session with what it holds uncommitted
    runs       \* history: the persistence runs that have ended, in order

vars == <<pc, url, tipo, criteria, state, fault, visited, caught, judgment, args, ret,
          eventos, session, runs>>

NoState == [t |-> "nostate"]
NoValue == [t |-> "novalue"]
\* no database session is open
NoSession == [t |-> "nosession"]
Decisions == {"APPROVED", "REJECTED", "MANUAL_REVIEW", "ERROR"}

\* variant: any non-empty url is accepted
ValidUrl_any_text(u) == Truthy(u)
\* the input validation of execute_scraping_pipeline
ValidUrl(u) == Truthy(u) /\ (startswith(u.s, sHttp) \/ startswith(u.s, sHttps))
ValidTipo(tp) == Truthy(tp) /\ InSeq(tp.s, <<sHTML, sPDF, sIMAGE>>)

initial_state(u, tp) ==
    [url |-> u, tipo |-> tp, mapeo_campos |-> PipelineMapeo,
     scraped_data |-> <<>>, scraping_errors |-> <<>>,
     processed_events |-> <<>>, processing_errors |-> <<>>,
     processing_metadata |-> EmptyDict,
     supervision_decision |-> "", supervision_reasoning |-> NoReasoning,
     approved_events |-> <<>>, rejected_events |-> <<>>,
     validation_results |-> DefaultValidationResults,
     execution_end |-> FALSE]

Init ==
    /\ pc = "call"
    /\ url \in Urls
    /\ tipo \in Tipos
    /\ criteria \in PipelineCriteria
    /\ state = NoState
    /\ fault = ""
    /\ visited = <<>>
    /\ caught = {}
    /\ judgment = NoValue
    /\ eventos = <<>>
    /\ session = NoSession
    /\ runs = <<>>
    /\ args = NoValue
    /\ ret = NoValue

\* execute_scraping_pipeline up to the graph's START -> scraping edge
Call ==
    /\ pc = "call"
    /\ IF ~ValidUrl(url)
       THEN /\ pc' = "raised"
            /\ fault' = "Invalid URL provided"
            /\ UNCHANGED state
       ELSE IF ~ValidTipo(tipo)
       THEN /\ pc' = "raised"
            /\ fault' = "Invalid tipo provided"
            /\ UNCHANGED state
       ELSE /\ pc' = "scraping"
            /\ state' = initial_state(url, tipo)
            /\ UNCHANGED fault
    /\ UNCHANGED <<url, tipo, criteria, visited, caught, judgment, args, ret,
                 eventos, session, runs>>

\* what _parse_intelligent_output returns: the data the extraction steps gave and
\* one "Error parsing step" entry per step whose parsing raised ...
ParsedResults ==
    {[data |-> d, errors |-> Repeat(Err("Error parsing step"), n)] :
        d \in ScrapedLists, n \in 0..MaxStepErrors}
\* ... or the result of its outer except block
parsing_error_result ==
    [data |-> <<>>, errors |-> <<Err("Failed to parse intelligent agent output")>>]

\* ScrapingAgent.analyze_and_scrape when the agent executor returns: the state is
\* updated from the parsed result
analyze_and_scrape(st, parsed_result) ==
    [st EXCEPT !.scraped_data = parsed_result.data,
               !.scraping_errors = parsed_result.errors]
\* variant: the except block empties the data without recording the error
analyze_and_scrape_except_silent(st) == [st EXCEPT !.scraped_data = <<>>]
\* ... and when anything in its try block raises
analyze_and_scrape_except(st) ==
    [st EXCEPT !.scraping_errors = Append(@, Err("Intelligent scraping agent error")),
               !.scraped_data = <<>>]
\* the except block of _scraping_node: the agent itself raised
scraping_node_except(st) ==
    [st EXCEPT !.scraping_errors = Append(@, Err("Scraping node error"))]

ScrapingNode ==
    /\ pc = "scraping"
    /\ \/ \E parsed_result \in ParsedResults :
            /\ state' = analyze_and_scrape(state, parsed_result)
            /\ caught' = IF parsed_result.errors # <<>>
                         THEN caught \cup {"step_parse"} ELSE caught
       \/ /\ state' = analyze_and_scrape(state, parsing_error_result)
          /\ caught' = caught \cup {"output_parse"}
       \/ /\ state' = analyze_and_scrape_except(state)
          /\ caught' = caught \cup {"scraping_agent"}
       \/ /\ state' = scraping_node_except(state)
          /\ caught' = caught \cup {"scraping_node"}
    /\ pc' = "after_scraping"
    /\ visited' = Append(visited, "scraping")
    /\ UNCHANGED <<url, tipo, criteria, fault, judgment, args, ret,
                 eventos, session, runs>>

\* variant: any data continues, however many errors
_should_continue_to_processing_any_data(st) ==
    IF st.scraped_data # <<>> THEN "continue" ELSE "error"

_should_continue_to_processing(st) ==
    IF st.scraped_data # <<>> /\ Len(st.scraping_errors) = 0 THEN "continue"
    ELSE IF st.scraped_data # <<>> /\ Len(st.scraping_errors) <= 2 THEN "continue"
    ELSE "error"

\* the conditional edge out of "scraping"
RouteAfterScraping ==
    /\ pc = "after_scraping"
    /\ pc' = IF _should_continue_to_processing(state) = "continue"
             THEN "processing" ELSE "error_handler"
    /\ UNCHANGED <<url, tipo, criteria, state, fault, visited, caught, judgment, args, ret,
                 eventos, session, runs>>

\* variant: the rejection rate is added to 1.0
metadata_results_adding_rate(metadata, has) ==
    [quality_score |-> IF has THEN Ratio(metadata.rejection_rate.den
                                         + metadata.rejection_rate.num,
                                         metadata.rejection_rate.den)
                       ELSE Ratio(1, 1),
     total_extracted |-> IF has THEN metadata.total_raw ELSE 0,
     total_validated |-> IF has THEN metadata.validated ELSE 0,
     approval_rate |-> IF has THEN Ratio(metadata.rejection_rate.den
                                         + metadata.rejection_rate.num,
                                         metadata.rejection_rate.den)
                       ELSE Ratio(1, 1)]
\* the validation_results _processing_node derives from processing_metadata,
\* with the defaults of metadata.get when the agent left the metadata empty
metadata_results(metadata, has) ==
    [quality_score |-> IF has THEN Ratio(metadata.rejection_rate.den
                                         - metadata.rejection_rate.num,
                                         metadata.rejection_rate.den)
                       ELSE Ratio(1, 1),
     total_extracted |-> IF has THEN metadata.total_raw ELSE 0,
     total_validated |-> IF has THEN metadata.validated ELSE 0,
     approval_rate |-> IF has THEN Ratio(metadata.rejection_rate.den
                                         - metadata.rejection_rate.num,
                                         metadata.rejection_rate.den)
                       ELSE Ratio(1, 1)]
\* variant: the processing metadata is passed on as it is
node_validation_results_as_metadata(st) == st.processing_metadata
node_validation_results(st) ==
    metadata_results(st.processing_metadata, DOMAIN st.processing_metadata # {})
\* the except block of _processing_node: the agent itself raised
processing_node_except(st) ==
    [st EXCEPT !.processing_errors = Append(@, Err("Processing node error"))]

\* _processing_node when process_data returns `result`
ProcessingReturns(result, called, llm) ==
    /\ state' = [result EXCEPT !.validation_results = node_validation_results(result)]
    /\ caught' = caught
         \cup (IF called /\ llm = Raised THEN {"llm_validation"} ELSE {})
         \cup (IF called /\ llm # Raised /\ ~llm.is_list THEN {"processing_agent"} ELSE {})

\* the normalization is the same whatever the validation call does: it is worked
\* out once for the step
ProcessingNode ==
    /\ pc = "processing"
    /\ \/ /\ state' = processing_node_except(state)
          /\ caught' = caught \cup {"processing_node"}
       \/ \E normalized_events \in {NormalizeAll(state.scraped_data, state.mapeo_campos)},
            normalization_errors \in
                {NormalizationErrors(state.scraped_data, state.mapeo_campos)} :
            \E llm \in {validation_call(normalized_events, answer) :
                           answer \in LLMValidationOutcomes(normalized_events)} :
                ProcessingReturns(process_normalized(state, normalized_events,
                                                     normalization_errors, llm),
                                  normalized_events # <<>>, llm)
    /\ pc' = "after_processing"
    /\ visited' = Append(visited, "processing")
    /\ UNCHANGED <<url, tipo, criteria, fault, judgment, args, ret,
                 eventos, session, runs>>

\* variant: processing errors send the run to the error handler
_should_continue_to_supervision_no_errors(st) ==
    IF st.processed_events # <<>> /\ st.processing_errors = <<>>
    THEN "continue" ELSE "error"

_should_continue_to_supervision(st) ==
    IF st.processed_events # <<>> THEN "continue" ELSE "error"

\* the conditional edge out of "processing"
RouteAfterProcessing ==
    /\ pc = "after_processing"
    /\ pc' = IF _should_continue_to_supervision(state) = "continue"
             THEN "supervision" ELSE "error_handler"
    /\ UNCHANGED <<url, tipo, criteria, state, fault, visited, caught, judgment, args, ret,
                 eventos, session, runs>>

\* variant: the except block records the reasoning and leaves the decision as it was
supervision_node_except_no_decision(st) ==
    [st EXCEPT !.supervision_reasoning = Reasoning("Supervision node error", 0, "")]
\* the except block of _supervision_node: the supervisor itself raised
supervision_node_except(st) ==
    [st EXCEPT !.supervision_decision = "ERROR",
               !.supervision_reasoning = Reasoning("Supervision node error", 0, "")]

\* _supervision_node when supervise_quality returns; the judgment call is made
\* only when the automatic validation before it did not raise
SupervisionReturns(auto_validation, response) ==
    /\ state' = decide(state, auto_validation, response)
    /\ caught' = caught \cup (IF auto_validation = Raised THEN {"supervisor"} ELSE {})
    /\ judgment' = IF auto_validation = Raised THEN judgment ELSE response

\* variant: the error handler is followed by the supervision
final_edge_handler_to_supervision(node) ==
    IF node = "error_handler" THEN "supervision" ELSE "end"
\* the final edges of _build_graph: supervision and error_handler lead to END
final_edge(node) == "end"

\* the automatic validation is the same whatever the judgment call does: it is
\* worked out once for the step
SupervisionNode ==
    /\ pc = "supervision"
    /\ \/ /\ state' = supervision_node_except(state)
          /\ caught' = caught \cup {"supervision_node"}
          /\ UNCHANGED judgment
       \/ \E auto_validation \in {_automatic_validation(state.processed_events, criteria)},
            response \in JudgmentOutcomes :
            SupervisionReturns(auto_validation, response)
    /\ pc' = final_edge("supervision")
    /\ visited' = Append(visited, "supervision")
    /\ UNCHANGED <<url, tipo, criteria, fault, args, ret,
                 eventos, session, runs>>

\* variant: only the scraping errors are counted
_error_handler_node_scraping_count(st) ==
    [st EXCEPT !.supervision_decision = "ERROR",
               !.supervision_reasoning =
                   Reasoning("Pipeline failed with n errors", Len(st.scraping_errors), ""),
               !.approved_events = <<>>]

_error_handler_node(st) ==
    [st EXCEPT !.supervision_decision = "ERROR",
               !.supervision_reasoning =
                   Reasoning("Pipeline failed with n errors",
                             Len(st.scraping_errors \o st.processing_errors), ""),
               !.approved_events = <<>>]

ErrorHandlerNode ==
    /\ pc = "error_handler"
    /\ state' = _error_handler_node(state)
    /\ pc' = final_edge("error_handler")
    /\ visited' = Append(visited, "error_handler")
    /\ UNCHANGED <<url, tipo, criteria, fault, caught, judgment, args, ret,
                 eventos, session, runs>>

\* graph.ainvoke returned: the timing is recorded and the final state returned
GraphReturn ==
    /\ pc = "end"
    /\ state' = [state EXCEPT !.execution_end = TRUE]
    /\ pc' = "returned"
    /\ UNCHANGED <<url, tipo, criteria, fault, visited, caught, judgment, args, ret,
                 eventos, session, runs>>

\* the state the except block of execute_scraping_pipeline returns: a shallow copy
\* of initial_state. Its processing_errors is the list object the graph was given,
\* which _processing_node's except block appends to in place when the graph hands
\* the nodes that same object: pe is either the initial list or the appended one
error_state(u, tp, pe) ==
    [initial_state(u, tp) EXCEPT
        !.supervision_decision = "ERROR",
        !.supervision_reasoning = Reasoning("Pipeline execution failed", 0, ""),
        !.scraping_errors = <<Err("graph execution failed")>>,
        !.processing_errors = pe,
        !.execution_end = TRUE,
        !.validation_results = DefaultValidationResults]

\* graph.ainvoke raises before the graph has reached END
GraphFault ==
    /\ pc \in {"scraping", "after_scraping", "processing", "after_processing",
               "supervision", "error_handler"}
    /\ \E pe \in {<<>>} \cup (IF "processing_node" \in caught
                              THEN {<<Err("Processing node error")>>} ELSE {}) :
          state' = error_state(url, tipo, pe)
    /\ pc' = "returned"
    /\ caught' = caught \cup {"pipeline"}
    /\ UNCHANGED <<url, tipo, criteria, fault, visited, judgment, args, ret,
                 eventos, session, runs>>

Next ==
    \/ Call
    \/ ScrapingNode
    \/ RouteAfterScraping
    \/ ProcessingNode
    \/ RouteAfterProcessing
    \/ SupervisionNode
    \/ ErrorHandlerNode
    \/ GraphReturn
    \/ GraphFault

Spec == Init /\ [][Next]_vars

\* the event loop runs every awaited step of the call to its end: a call made is
\* carried out, a node the graph has scheduled runs and returns, an edge is
\* followed, and ainvoke returns once END is reached. Nothing promises a fault of
\* the graph, so GraphFault is under no fairness condition
FairSpec ==
    /\ Spec
    /\ WF_vars(Call)
    /\ WF_vars(ScrapingNode)
    /\ WF_vars(RouteAfterScraping)
    /\ WF_vars(ProcessingNode)
    /\ WF_vars(RouteAfterProcessing)
    /\ WF_vars(SupervisionNode)
    /\ WF_vars(ErrorHandlerNode)
    /\ WF_vars(GraphReturn)

(***************************************************************************)
(* SupervisorAgent._make_final_decision applied on its own                 *)
(***************************************************************************)
\* most events in the valid_events of an automatic-validation result
MaxValidCount == 2
\* most entries in its invalid_events
MaxInvalidCount == 1

SampleEvent(i) == [titulo |-> Str(<<"e","v">>), orden |-> Num(i)]
SampleRejection(i) ==
    [event |-> SampleEvent(i), reasons |-> << <<"Invalid category", "">> >>]
\* automatic-validation results, consistent in their counts, with meets_minimum free
\* (min_events is any number, 0 included)
AutoValidations ==
    {[valid_count |-> v, invalid_count |-> iv,
      valid_events |-> [i \in 1..v |-> SampleEvent(i)],
      invalid_events |-> [i \in 1..iv |-> SampleRejection(v + i)],
      meets_minimum |-> m] :
        v \in 0..MaxValidCount, iv \in 0..MaxInvalidCount, m \in BOOLEAN}
\* judgments as _llm_supervision returns them
LLMDecisions ==
    {LLMFailed}
    \cup {[decision |-> d, reasoning |-> r] :
            d \in {sAPPROVE, sREJECT, <<"M","A","Y","B","E">>,
                   <<"a","p","p","r","o","v","e">>, <<"R","e","j","e","c","t">>, <<>>},
            r \in {"llm reasoning", "No reasoning provided"}}

InitFusion ==
    /\ pc = "fusion"
    /\ args \in [auto_validation : AutoValidations, llm_decision : LLMDecisions]
    /\ ret = NoValue
    /\ url = PyNone
    /\ tipo = PyNone
    /\ criteria = EmptyDict
    /\ state = NoState
    /\ fault = ""
    /\ visited = <<>>
    /\ caught = {}
    /\ judgment = NoValue
    /\ eventos = <<>>
    /\ session = NoSession
    /\ runs = <<>>

MakeFinalDecision ==
    /\ pc = "fusion"
    /\ ret' = _make_final_decision(args.auto_validation, args.llm_decision)
    /\ pc' = "fused"
    /\ UNCHANGED <<url, tipo, criteria, state, fault, visited, caught, judgment, args,
                 eventos, session, runs>>

NextFusion == MakeFinalDecision

SpecFusion == InitFusion /\ [][NextFusion]_vars

(***************************************************************************)
(* SupervisorAgent._automatic_validation applied on its own                *)
(***************************************************************************)
\* longest list of events handed to _automatic_validation
MaxAutoEvents == 2

sYoga == <<"Y","o","g","a">>
Day1 == Date(2025, 7, 15)
EventWith(categoria, precio) ==
    [titulo |-> Str(sYoga), fecha_inicio |-> Day1, categoria |-> categoria,
     precio |-> precio]
\* events of every kind the checks tell apart
AutoEvents ==
    << EventWith(Str(sCine), Str(sGratis)),
       EventWith(Str(sCine), Str(<<"2","0","€">>)),
       EventWith(Str(sCine), Str(<<"1","5","€">>)),
       EventWith(Str(sCine), Str(<<"1","5",".","5","€">>)),
       EventWith(Str(sCine), Str(<<"0","€">>)),
       EventWith(Str(sCine), Str(<<"1","€">>)),
       EventWith(Str(sCine), Str(sConsultar)),
       EventWith(Str(sCine), Num(30)),
       EventWith(Str(sCine), PyNone),
       [titulo |-> Str(sYoga), fecha_inicio |-> Day1, categoria |-> Str(sCultura)],
       EventWith(Str(<<"O","t","r","a">>), Str(sGratis)),
       EventWith(PyNone, Str(sGratis)),
       [titulo |-> Str(sYoga), fecha_inicio |-> Day1, precio |-> Str(sGratis)],
       [titulo |-> Str(<<>>), fecha_inicio |-> Day1, categoria |-> Str(sOcio),
        precio |-> Str(sGratis)],
       [fecha_inicio |-> PyNone, categoria |-> Str(<<"O","t","r","a">>),
        precio |-> Str(<<"9","9","€">>)],
       NonDictItem >>
\* the n events of AutoEvents from the i-th on, going round
Window(i, n) == [k \in 1..n |-> AutoEvents[((i + k - 2) % Len(AutoEvents)) + 1]]
AutoEventLists ==
    {<<>>} \cup {Window(i, n) : i \in 1..Len(AutoEvents), n \in 1..MaxAutoEvents}

\* a configuration key: left out, or present with a value
Absent == [has |-> FALSE]
Present(v) == [has |-> TRUE, v |-> v]
WithKey(d, k, opt) == IF opt.has THEN Put(d, k, opt.v) ELSE d
CriteriaOf(rf, vc, mp, me) ==
    WithKey(WithKey(WithKey(WithKey(EmptyDict, "required_fields", rf),
                            "valid_categories", vc), "max_price", mp), "min_events", me)
AutoCriteria ==
    {CriteriaOf(rf, vc, mp, me) :
        rf \in {Absent, Present(<<"titulo">>),
                Present(<<"titulo", "fecha_inicio", "categoria">>)},
        vc \in {Absent, Present(<<>>), Present(CATEGORIAS_VALIDAS)},
        mp \in {Absent, Present(0)},
        me \in {Absent} \cup {Present(m) : m \in 0..MaxMinEvents}}

InitAutoVal ==
    /\ pc = "validation"
    /\ args \in [events : AutoEventLists, criteria : AutoCriteria]
    /\ ret = NoValue
    /\ url = PyNone
    /\ tipo = PyNone
    /\ criteria = EmptyDict
    /\ state = NoState
    /\ fault = ""
    /\ visited = <<>>
    /\ caught = {}
    /\ judgment = NoValue
    /\ eventos = <<>>
    /\ session = NoSession
    /\ runs = <<>>

AutomaticValidation ==
    /\ pc = "validation"
    /\ ret' = _automatic_validation(args.events, args.criteria)
    /\ pc' = "validated"
    /\ UNCHANGED <<url, tipo, criteria, state, fault, visited, caught, judgment, args,
                 eventos, session, runs>>

NextAutoVal == AutomaticValidation

SpecAutoVal == InitAutoVal /\ [][NextAutoVal]_vars

(***************************************************************************)
(* EventNormalizer.normalize_event applied on its own to two raw records   *)
(***************************************************************************)
\* how many characters past the length limit the longest raw title is
MaxOverrun == 1

\* the mapping SSReyesAgent.extract_events_from_pdf normalizes with
SSReyesMapeo ==
    << <<"titulo", <<"titulo">> >>, <<"fecha_inicio", <<"fecha_inicio">> >>,
       <<"categoria", <<"categoria">> >>, <<"precio", <<"precio">> >>,
       <<"ubicacion", <<"ubicacion">> >>, <<"descripcion", <<"descripcion">> >> >>
\* a source mapping that sends the raw category to datos_extra
NestedMapeo ==
    << <<"titulo", <<"titulo">> >>, <<"fecha_inicio", <<"fecha_inicio">> >>,
       <<"ubicacion", <<"ubicacion">> >>, <<"categoria", <<"datos_extra", "tipo">> >> >>
FieldMappings == {SSReyesMapeo, NestedMapeo}

LongTitle(n) == [i \in 1..n |-> "a"]
RawTitles ==
    {Absent, Present(Str(<<" "," ","y","o","g","a"," "," ","e","n"," ","e","l"," "," ","p","a","r","q","u","e"," ">>)), Present(Str(<<"Y","o","g","a"," ","E","n"," ","E","l"," ","P","a","r","q","u","e">>)), Present(Str(<<"g","a","l","a"," ","a","n","u","a","l">>)),
     Present(Str(<<"a","b">>)), Present(Str(<<" ","a","b"," "," ">>)), Present(Num(7))}
    \cup {Present(Str(LongTitle(TitleMaxLen + k))) : k \in 0..MaxOverrun}
RawDates ==
    {Absent, Present(Str(<<"1","5","/","0","7","/","2","0","2","5">>)), Present(Str(<<"2","0","2","5","-","0","7","-","1","5">>)), Present(Day1),
     Present(Str(<<"p","r","o","n","t","o">>)), Present(Str(<<"3","1","/","0","2","/","2","0","2","5">>)), Present(Num(20250715))}
RawLocations == {Absent, Present(Str(<<" ","c","e","n","t","r","o"," "," "," ","s","u","r"," ">>)), Present(Str(<<"C","e","n","t","r","o"," ","S","u","r">>))}
\* the fields the fingerprint does not read
RawOthers ==
    {EmptyDict,
     [categoria |-> Str(sCine), precio |-> Str(<<"5"," ","e","u","r","o","s">>)],
     [categoria |-> Str(<<"O","t","r","a">>), descripcion |-> Str(<<"c","u","r","s","o"," ","d","e"," ","<","b",">","p","i","n","t","u","r","a","<","/","b",">">>)],
     [categoria |-> Num(3), precio |-> Str(sGratis)]}
RawOf(titulo, fecha_inicio, ubicacion, others) ==
    WithKey(WithKey(WithKey(others, "titulo", titulo), "fecha_inicio", fecha_inicio),
            "ubicacion", ubicacion)
RawRecords ==
    {RawOf(titulo, fecha_inicio, ubicacion, others) :
        titulo \in RawTitles, fecha_inicio \in RawDates,
        ubicacion \in RawLocations, others \in RawOthers}
\* the records each raw record is compared with
RawTwins ==
    {RawOf(Present(Str(<<"Y","o","g","a"," ","E","n"," ","E","l"," ","P","a","r","q","u","e">>)), Present(Day1), Present(Str(<<"C","e","n","t","r","o"," ","S","u","r">>)), EmptyDict),
     RawOf(Present(Str(<<"Y","o","g","a"," ","E","n"," ","E","l"," ","P","a","r","q","u","e">>)), Present(Str(<<"2","0","2","5","-","0","7","-","1","5">>)), Absent,
           [categoria |-> Str(sFormacion), precio |-> Str(<<"1","2",",","5","0">>)]),
     RawOf(Present(Str(<<"g","a","l","a"," ","a","n","u","a","l">>)), Present(Str(<<"1","5","/","0","7","/","2","0","2","5">>)), Present(Str(<<" ","c","e","n","t","r","o"," "," "," ","s","u","r"," ">>)),
           [descripcion |-> Str(<<"s","i","n"," ","d","e","t","a","l","l","e","s">>)])}

InitNormalize ==
    /\ pc = "normalize"
    /\ args \in [first : RawRecords, second : RawTwins, mapeo_campos : FieldMappings]
    /\ ret = NoValue
    /\ url = PyNone
    /\ tipo = PyNone
    /\ criteria = EmptyDict
    /\ state = NoState
    /\ fault = ""
    /\ visited = <<>>
    /\ caught = {}
    /\ judgment = NoValue
    /\ eventos = <<>>
    /\ session = NoSession
    /\ runs = <<>>

NormalizeEvents ==
    /\ pc = "normalize"
    /\ ret' = [first |-> normalize_event(args.first, args.mapeo_campos),
               second |-> normalize_event(args.second, args.mapeo_campos)]
    /\ pc' = "normalized"
    /\ UNCHANGED <<url, tipo, criteria, state, fault, visited, caught, judgment, args,
                 eventos, session, runs>>

NextNormalize == NormalizeEvents

SpecNormalize == InitNormalize /\ [][NextNormalize]_vars

(***************************************************************************)
(* select_top_content (backend/tools/content_prioritization_tools.py)      *)
(* applied on its own. Scores are counted in ten-thousandths.              *)
(***************************************************************************)
\* longest ranked list handed to select_top_content
MaxItems == 3
\* largest max_count asked for
MaxCount == 2

DefaultMaxCount == 3
DefaultMinScore == 5000

\* item.get("final_score", 0)
ScoreOf(item) == GetDefault(item, "final_score", Num(0))
\* f"{score:.3f}": the score in thousandths, rounded to the nearest
Round3(n) == (n + 5) \div 10
\* variant: a score equal to the minimum is rejected too
ScoreReason_exclusive(item, min_score) ==
    IF ScoreOf(item).n <= min_score
    THEN << [reason |-> "Score below minimum", score |-> Round3(ScoreOf(item).n),
             minimum |-> min_score] >>
    ELSE <<>>
\* the checks of one iteration; each gives its rejection reason or nothing
ScoreReason(item, min_score) ==
    IF ScoreOf(item).n < min_score
    THEN << [reason |-> "Score below minimum", score |-> Round3(ScoreOf(item).n),
             minimum |-> min_score] >>
    ELSE <<>>
DatesReason(item, require_dates) ==
    IF require_dates /\ ~("extracted_dates" \in DOMAIN item /\ item.extracted_dates # <<>>)
    THEN << [reason |-> "No dates found but dates required"] >>
    ELSE <<>>
\* variant: the cap is reached one item late
CountReason_one_more(selected_items, max_count) ==
    IF Len(selected_items) > max_count
    THEN << [reason |-> "Already selected max_count items", max_count |-> max_count] >>
    ELSE <<>>
CountReason(selected_items, max_count) ==
    IF Len(selected_items) >= max_count
    THEN << [reason |-> "Already selected max_count items", max_count |-> max_count] >>
    ELSE <<>>
rejection_reasons(item, selected_items, max_count, min_score, require_dates) ==
    ScoreReason(item, min_score) \o DatesReason(item, require_dates)
    \o CountReason(selected_items, max_count)

\* the loop over ranked_items; Raised when a score does not compare with min_score
RECURSIVE select_loop(_, _, _, _, _, _)
select_loop(items, selected_items, rejected_items, max_count, min_score, require_dates) ==
    IF items = <<>> THEN [selected_items |-> selected_items, rejected_items |-> rejected_items]
    ELSE IF ScoreOf(items[1]).t # "num" THEN Raised
    ELSE IF rejection_reasons(items[1], selected_items, max_count, min_score,
                              require_dates) = <<>>
         THEN select_loop(Tail(items), Append(selected_items, items[1]), rejected_items,
                          max_count, min_score, require_dates)
         ELSE select_loop(Tail(items), selected_items,
                          Append(rejected_items,
                                 Put(items[1], "rejection_reasons",
                                     rejection_reasons(items[1], selected_items, max_count,
                                                       min_score, require_dates))),
                          max_count, min_score, require_dates)

RECURSIVE SumScores(_)
SumScores(items) == IF items = <<>> THEN 0 ELSE ScoreOf(items[1]).n + SumScores(Tail(items))
_generate_selection_summary(selected_items, selection_criteria) ==
    IF selected_items = <<>> THEN [summary |-> "No items met selection selection_criteria"]
    ELSE [summary |-> "Selected n items with average score",
          n |-> Len(selected_items),
          average |-> Ratio(SumScores(selected_items), Len(selected_items)),
          threshold |-> IF GetDefault(selection_criteria, "min_score", 0) # 0
                        THEN Present(selection_criteria["min_score"]) ELSE Absent]

_create_error_response(error_msg) ==
    [success |-> FALSE, data |-> <<>>, errors |-> <<error_msg>>,
     metadata |-> [error_occurred |-> TRUE]]
_create_success_response(data, metadata) ==
    [success |-> TRUE, data |-> data, errors |-> <<>>, metadata |-> metadata]

selection_response(result, selection_criteria) ==
    IF result = Raised THEN _create_error_response("Content selection failed")
    ELSE _create_success_response(
            result.selected_items,
            [selection_criteria |-> selection_criteria,
             items_selected |-> Len(result.selected_items),
             items_rejected |-> Len(result.rejected_items),
             rejected_items |-> result.rejected_items,
             selection_summary |->
                 _generate_selection_summary(result.selected_items, selection_criteria)])

select_top_content(ranked_items, selection_criteria) ==
    IF ranked_items = <<>> THEN _create_error_response("No ranked items provided")
    ELSE selection_response(
            select_loop(ranked_items, <<>>, <<>>,
                        GetDefault(selection_criteria, "max_count", DefaultMaxCount),
                        GetDefault(selection_criteria, "min_score", DefaultMinScore),
                        GetDefault(selection_criteria, "require_dates", FALSE)),
            selection_criteria)

\* ranked items: a score (or none, or None), and dates found (or none)
RankedItem(id, final_score, extracted_dates) ==
    WithKey(WithKey([id |-> id], "final_score", final_score),
            "extracted_dates", extracted_dates)
SampleItems ==
    {RankedItem("a", Present(Num(9000)), Present(<<"2025-07-15">>)),
     RankedItem("b", Present(Num(7000)), Absent),
     RankedItem("c", Present(Num(5000)), Present(<<"2025-08-01">>)),
     RankedItem("d", Present(Num(5000)), Present(<<>>)),
     RankedItem("e", Present(Num(4999)), Present(<<"2025-09-01">>)),
     RankedItem("f", Absent, Absent),
     RankedItem("g", Present(PyNone), Absent)}
RECURSIVE ListsUpTo(_, _)
ListsUpTo(S, n) ==
    IF n = 0 THEN {<<>>}
    ELSE ListsUpTo(S, n - 1)
         \cup {Append(q, x) : q \in {l \in ListsUpTo(S, n - 1) : Len(l) = n - 1}, x \in S}
RankedLists == ListsUpTo(SampleItems, MaxItems)
SelectionCriteria ==
    {WithKey(WithKey(WithKey(EmptyDict, "max_count", mc), "min_score", ms),
             "require_dates", rd) :
        mc \in {Absent} \cup {Present(n) : n \in 0..MaxCount},
        ms \in {Absent, Present(0), Present(7000)},
        rd \in {Absent, Present(FALSE), Present(TRUE)}}

InitSelect ==
    /\ pc = "selection"
    /\ args \in [ranked_items : RankedLists, selection_criteria : SelectionCriteria]
    /\ ret = NoValue
    /\ url = PyNone
    /\ tipo = PyNone
    /\ criteria = EmptyDict
    /\ state = NoState
    /\ fault = ""
    /\ visited = <<>>
    /\ caught = {}
    /\ judgment = NoValue
    /\ eventos = <<>>
    /\ session = NoSession
    /\ runs = <<>>

SelectTopContent ==
    /\ pc = "selection"
    /\ ret' = select_top_content(args.ranked_items, args.selection_criteria)
    /\ pc' = "selected"
    /\ UNCHANGED <<url, tipo, criteria, state, fault, visited, caught, judgment, args,
                 eventos, session, runs>>

NextSelect == SelectTopContent

SpecSelect == InitSelect /\ [][NextSelect]_vars

(***************************************************************************)
(* The event store: the table eventos (core/models.py), and the two        *)
(* writers of it, ScrapingEngine (backend/scraping/engine.py) and          *)
(* SSReyesAgent.save_eventos_to_db_deduped (backend/agents/ssreyes_agent.py)*)
(***************************************************************************)
\* longest batch of raw records handed to the store's writers
MaxBatch == 2
\* how many times in sequence the same content is run
MaxRuns == 2

\* a row of eventos, with the columns the writers set or look up
Evento(titulo, fecha_inicio, categoria, precio, ubicacion, hash_contenido, fuente_id, datos_raw) ==
    [titulo |-> titulo, fecha_inicio |-> fecha_inicio, categoria |-> categoria,
     precio |-> precio, ubicacion |-> ubicacion, hash_contenido |-> hash_contenido,
     fuente_id |-> fuente_id, datos_raw |-> datos_raw]
\* the NOT NULL columns: a row that leaves one empty is refused at commit
Insertable(row) ==
    row.titulo # PyNone /\ row.fecha_inicio # PyNone /\ row.categoria # PyNone
\* Column == value in a filter: a NULL column equals nothing, and a None value is
\* rendered as IS NULL
SqlEq(column, value) ==
    IF value = PyNone THEN column = PyNone ELSE column # PyNone /\ column = value
\* the committed rows a filter matches, by position
Matching(rows, Where(_)) == {k \in 1..Len(rows) : Where(rows[k])}

\* SessionLocal(): autoflush is off, so what the session holds (view: the rows it
\* has loaded and changed; pending: the rows added) reaches no query before commit
open_session(caller, batch, rows) ==
    [caller |-> caller, batch |-> batch, i |-> 1, view |-> rows, pending |-> <<>>,
     saved_count |-> 0, duplicate_count |-> 0, before |-> rows]
\* variant: a commit that drops the added rows
commit_view_only(ses) == ses.view
\* db.commit(): the changed and the added rows become the table
commit(ses) == ses.view \o ses.pending
\* variant: closing without commit keeps what the session had handled
discard_keeps_handled(rows, ses) == ses.view \o ses.pending
\* db.rollback() / db.close() without commit: the table stays as it was
discard(rows, ses) == rows

\* ---- SSReyesAgent.save_eventos_to_db_deduped: one iteration of its loop ----
found_by_hash(rows, hash_contenido) ==
    Truthy(hash_contenido)
    /\ Matching(rows, LAMBDA r : SqlEq(r.hash_contenido, hash_contenido)) # {}
found_by_content(rows, evento_data) ==
    Matching(rows, LAMBDA r :
        /\ SqlEq(r.titulo, evento_data["titulo"])
        /\ SqlEq(r.fecha_inicio, evento_data["fecha_inicio"])
        /\ SqlEq(r.ubicacion, GetDefault(evento_data, "ubicacion", Str(<<>>)))) # {}
new_evento(evento_data, fuente_id) ==
    Evento(evento_data["titulo"], evento_data["fecha_inicio"], evento_data["categoria"],
           evento_data["precio"], Get(evento_data, "ubicacion"),
           Get(evento_data, "hash_contenido"), fuente_id, PyNone)
duplicate(ses) == [ses EXCEPT !.i = @ + 1, !.duplicate_count = @ + 1]
\* Raised: a key the loop subscripts is missing, or fecha_inicio is no date
save_one(ses, rows, evento_data, fuente_id) ==
    IF found_by_hash(rows, Get(evento_data, "hash_contenido"))
    THEN (IF "titulo" \in DOMAIN evento_data THEN duplicate(ses) ELSE Raised)
    ELSE IF ~({"titulo", "fecha_inicio"} \subseteq DOMAIN evento_data) THEN Raised
    ELSE IF evento_data["fecha_inicio"].t # "date" THEN Raised
    ELSE IF found_by_content(rows, evento_data) THEN duplicate(ses)
    ELSE IF ~({"categoria", "precio"} \subseteq DOMAIN evento_data) THEN Raised
    ELSE [ses EXCEPT !.i = @ + 1, !.saved_count = @ + 1,
                     !.pending = Append(@, new_evento(evento_data, fuente_id))]

\* ---- ScrapingEngine._procesar_eventos: one iteration of its loop ----
_generar_hash_evento(evento_data) ==
    Sha256(Format(GetDefault(evento_data, "titulo", Str(<<>>)))
           \o Format(GetDefault(evento_data, "fecha_inicio", Str(<<>>)))
           \o Format(GetDefault(evento_data, "ubicacion", Str(<<>>))))
_crear_evento(evento_data, fuente_id, hash_contenido) ==
    Evento(Get(evento_data, "titulo"), Get(evento_data, "fecha_inicio"),
           GetDefault(evento_data, "categoria", Str(sOcio)),
           GetDefault(evento_data, "precio", Str(sGratis)),
           Get(evento_data, "ubicacion"), hash_contenido, fuente_id, Dict(evento_data))
_actualizar_evento(evento, evento_data) ==
    [evento EXCEPT !.titulo = GetDefault(evento_data, "titulo", @),
                   !.precio = GetDefault(evento_data, "precio", @),
                   !.ubicacion = GetDefault(evento_data, "ubicacion", @),
                   !.datos_raw = Dict(evento_data)]
\* the rows of this source with the event's hash
existentes(rows, evento_data, fuente_id) ==
    Matching(rows, LAMBDA r :
        /\ SqlEq(r.hash_contenido, _generar_hash_evento(evento_data))
        /\ r.fuente_id = fuente_id)
\* evento_existente is row k (0: there is none)
procesar_one(ses, k, evento_data, fuente_id) ==
    IF k # 0
    THEN [ses EXCEPT !.i = @ + 1, !.duplicate_count = @ + 1,
                     !.view[k] = _actualizar_evento(@, evento_data)]
    ELSE [ses EXCEPT !.i = @ + 1, !.saved_count = @ + 1,
                     !.pending = Append(@, _crear_evento(evento_data, fuente_id,
                                                         _generar_hash_evento(evento_data)))]

\* EventNormalizer.batch_normalize: the records that normalize, in order
batch_normalize(eventos_raw, mapeo_campos) == NormalizeAll(eventos_raw, mapeo_campos)

\* ---- what the writers are run on ----
sYogaParque == <<"Y","o","g","a"," ","E","n"," ","E","l"," ","P","a","r","q","u","e">>
sCentroSur == <<"C","e","n","t","r","o"," ","S","u","r">>
\* raw records as the extraction gives them: the first two are one event, met with
\* and without its location
PersistRaws ==
    {RawOf(Present(Str(<<" "," ","y","o","g","a"," "," ","e","n"," ","e","l"," "," ","p","a","r","q","u","e"," ">>)), Present(Str(<<"1","5","/","0","7","/","2","0","2","5">>)), Present(Str(<<" ","c","e","n","t","r","o"," "," "," ","s","u","r"," ">>)),
           [precio |-> Str(<<"5"," ","e","u","r","o","s">>)]),
     RawOf(Present(Str(sYogaParque)), Present(Str(<<"2","0","2","5","-","0","7","-","1","5">>)), Absent, EmptyDict),
     RawOf(Present(Str(<<"g","a","l","a"," ","a","n","u","a","l">>)), Present(Str(<<"1","5","/","0","7","/","2","0","2","5">>)), Present(Str(sCentroSur)),
           [descripcion |-> Str(<<"s","i","n"," ","d","e","t","a","l","l","e","s">>)]),
     RawOf(Present(Str(<<"a","b">>)), Present(Str(<<"1","5","/","0","7","/","2","0","2","5">>)), Absent, EmptyDict)}
RawBatches == ListsUpTo(PersistRaws, MaxBatch)

\* rows the table may hold before the first run: a record without fingerprint
\* (with or without location), and another source's record with a fingerprint
LegacyRow(ubicacion) ==
    Evento(Str(sYogaParque), Day1, Str(sDeporte), Str(sGratis), ubicacion, PyNone, 1,
           PyNone)
OtherSourceRow ==
    Evento(Str(sYogaParque), Day1, Str(sDeporte), Str(sGratis), Str(sCentroSur),
           _generate_hash([titulo |-> Str(sYogaParque), fecha_inicio |-> Day1,
                           ubicacion |-> Str(sCentroSur)]),
           2, PyNone)
InitialStores ==
    {<<>>, <<LegacyRow(Str(sCentroSur))>>, <<LegacyRow(PyNone)>>, <<OtherSourceRow>>,
     <<LegacyRow(PyNone), OtherSourceRow>>}

\* what the extraction hands to the SSReyes writer is Raised or the list of raw
\* records; what execute_scraping_pipeline hands to _procesar_fuente: Raised, or the final
\* state, of which the decision and the event lists are read
ApprovedOf(decision, processed_events) ==
    IF decision = "APPROVED"
    THEN {SubSeq(processed_events, 1, k) : k \in 1..Len(processed_events)}
    ELSE {<<>>}
ProcessedBatches ==
    {batch_normalize(eventos_raw, SSReyesMapeo) : eventos_raw \in RawBatches}
    \cup {<<LLMInvented>>}
FinalStates ==
    {Raised}
    \cup UNION {{[supervision_decision |-> decision, processed_events |-> processed_events,
                  approved_events |-> approved_events] :
                    approved_events \in ApprovedOf(decision, processed_events)} :
                decision \in Decisions, processed_events \in ProcessedBatches \ {<<>>}}
    \cup {[supervision_decision |-> "ERROR", processed_events |-> <<>>,
           approved_events |-> <<>>]}
PersistCalls ==
    {[caller |-> "ssreyes", extraction |-> extraction, fuente_id |-> 1] :
        extraction \in {[t |-> "list", eventos_raw |-> eventos_raw] :
                           eventos_raw \in RawBatches} \cup {Raised}}
    \cup {[caller |-> "engine", final_state |-> final_state, fuente_id |-> 1] :
            final_state \in FinalStates}

InitPersist ==
    /\ pc = "idle"
    /\ args \in PersistCalls
    /\ eventos \in InitialStores
    /\ session = NoSession
    /\ runs = <<>>
    /\ ret = NoValue
    /\ url = PyNone
    /\ tipo = PyNone
    /\ criteria = EmptyDict
    /\ state = NoState
    /\ fault = ""
    /\ visited = <<>>
    /\ caught = {}
    /\ judgment = NoValue

\* a run that ends without a session having been opened
EndsWithoutSession(estado) ==
    /\ runs' = Append(runs, [outcome |-> estado, batch |-> <<>>, before |-> eventos,
                             after |-> eventos, handled |-> 0, saved_count |-> 0,
                             duplicate_count |-> 0])
    /\ ret' = [estado |-> estado, saved_count |-> 0, duplicate_count |-> 0]
    /\ UNCHANGED <<pc, eventos, session>>
\* the batch is given up: the except / finally blocks close the session unsaved
Abort ==
    /\ eventos' = discard(eventos, session)
    /\ runs' = Append(runs, [outcome |-> "failed", batch |-> session.batch,
                             before |-> session.before, after |-> eventos',
                             handled |-> session.i - 1, saved_count |-> 0,
                             duplicate_count |-> 0])
    /\ ret' = [estado |-> "error", saved_count |-> 0, duplicate_count |-> 0]
    /\ session' = NoSession
    /\ pc' = "idle"

\* variant: every processed event is handed on
EventsToPersist_all_processed(final_state) == final_state.processed_events
\* the events _procesar_fuente hands to _procesar_eventos
EventsToPersist(final_state) == final_state.approved_events

\* SSReyesAgent.extract_events_from_pdf up to the opening of the session
ExtractEventsFromPdf ==
    /\ pc = "idle"
    /\ args.caller = "ssreyes"
    /\ Len(runs) < MaxRuns
    /\ IF args.extraction = Raised
       THEN EndsWithoutSession("error")
       ELSE /\ session' = open_session("ssreyes",
                                       batch_normalize(args.extraction.eventos_raw,
                                                       SSReyesMapeo),
                                       eventos)
            /\ pc' = "persisting"
            /\ UNCHANGED <<eventos, runs, ret>>
    /\ UNCHANGED <<url, tipo, criteria, state, fault, visited, caught, judgment, args>>

\* ScrapingEngine._procesar_fuente up to the opening of the session
ProcesarFuente ==
    /\ pc = "idle"
    /\ args.caller = "engine"
    /\ Len(runs) < MaxRuns
    /\ IF args.final_state = Raised
       THEN EndsWithoutSession("error")
       ELSE IF args.final_state.supervision_decision = "APPROVED"
       THEN /\ session' = open_session("engine", EventsToPersist(args.final_state), eventos)
            /\ pc' = "persisting"
            /\ UNCHANGED <<eventos, runs, ret>>
       ELSE EndsWithoutSession("success")
    /\ UNCHANGED <<url, tipo, criteria, state, fault, visited, caught, judgment, args>>

\* one iteration of the writer's loop: nothing but the session changes, unless the
\* iteration raises
HandleEvent ==
    /\ pc = "persisting"
    /\ session.i <= Len(session.batch)
    /\ IF session.caller = "ssreyes"
       THEN \E handled \in {save_one(session, eventos, session.batch[session.i],
                                     args.fuente_id)} :
               IF handled = Raised THEN Abort
               ELSE session' = handled /\ UNCHANGED <<pc, eventos, runs, ret>>
       ELSE \E found \in {existentes(eventos, session.batch[session.i], args.fuente_id)} :
            \E k \in (IF found = {} THEN {0} ELSE found) :
               /\ session' = procesar_one(session, k, session.batch[session.i],
                                          args.fuente_id)
               /\ UNCHANGED <<pc, eventos, runs, ret>>
    /\ UNCHANGED <<url, tipo, criteria, state, fault, visited, caught, judgment, args>>

\* a query, db.add or db.commit raises
SessionFault ==
    /\ pc = "persisting"
    /\ Abort
    /\ UNCHANGED <<url, tipo, criteria, state, fault, visited, caught, judgment, args>>

\* db.commit() after the loop
Commit ==
    /\ pc = "persisting"
    /\ session.i > Len(session.batch)
    /\ \A k \in 1..Len(commit(session)) : Insertable(commit(session)[k])
    /\ eventos' = commit(session)
    /\ runs' = Append(runs, [outcome |-> "committed", batch |-> session.batch,
                             before |-> session.before, after |-> eventos',
                             handled |-> session.i - 1,
                             saved_count |-> session.saved_count,
                             duplicate_count |-> session.duplicate_count])
    /\ ret' = [estado |-> "success", saved_count |-> session.saved_count,
               duplicate_count |-> session.duplicate_count]
    /\ session' = NoSession
    /\ pc' = "idle"
    /\ UNCHANGED <<url, tipo, criteria, state, fault, visited, caught, judgment, args>>

NextPersist ==
    \/ ExtractEventsFromPdf
    \/ ProcesarFuente
    \/ HandleEvent
    \/ SessionFault
    \/ Commit

SpecPersist == InitPersist /\ [][NextPersist]_vars

(***************************************************************************)
(* Two runs of ScrapingEngine._procesar_eventos for one source at the same *)
(* time: the scheduler's job thread and trigger_immediate_scraping (or two *)
(* admin requests) each call _execute_source_scraping, each run with a     *)
(* session of its own over the one table. max_instances=1 binds the        *)
(* scheduler's own job only (services/scheduler.py).                       *)
(***************************************************************************)
\* the two runs
TwoRuns == {1, 2}
\* the session of a run among several: the rows it has loaded or changed (view,
\* touched) are its own, its queries read the table as committed so far
open_concurrent(batch, rows) ==
    [caller |-> "engine", batch |-> batch, i |-> 1, view |-> rows, pending |-> <<>>,
     saved_count |-> 0, duplicate_count |-> 0, before |-> rows, touched |-> {}]
\* the session after loading the rows committed since it last looked
loaded(ses, rows) ==
    [ses EXCEPT !.view = @ \o SubSeq(rows, Len(@) + 1, Len(rows))]
\* one iteration of the loop in a session among several
procesar_one_concurrent(ses, rows, k, evento_data, fuente_id) ==
    [procesar_one(loaded(ses, rows), k, evento_data, fuente_id)
        EXCEPT !.touched = IF k # 0 THEN @ \cup {k} ELSE @]
\* db.commit() of a session among several: its changed rows are updated in the
\* table as it stands, its added rows are inserted
commit_concurrent(rows, ses) ==
    [k \in 1..Len(rows) |-> IF k \in ses.touched THEN ses.view[k] ELSE rows[k]]
    \o ses.pending

\* the approved events the runs are handed: batches without a repeated event,
\* the two batches of a pair sharing at least one event
ConcurrentEvents ==
    {batch[1] : batch \in {batch_normalize(<<raw>>, SSReyesMapeo) : raw \in PersistRaws}
                          \ {<<>>}}
ConcurrentBatches ==
    {batch \in ListsUpTo(ConcurrentEvents, MaxBatch) :
        batch # <<>> /\ \A a, b \in 1..Len(batch) : a # b => batch[a] # batch[b]}
Overlapping(batch, other) ==
    \E a \in 1..Len(batch), b \in 1..Len(other) : batch[a] = other[b]
\* the table before the runs: empty, or holding one of the events already
ConcurrentStores ==
    {<<>>}
    \cup {<<_crear_evento(e, 1, _generar_hash_evento(e))>> : e \in ConcurrentEvents}

InitConcurrent ==
    /\ pc = [r \in TwoRuns |-> "idle"]
    /\ args \in {a \in [batches : [TwoRuns -> ConcurrentBatches], fuente_id : {1}] :
                    Overlapping(a.batches[1], a.batches[2])}
    /\ eventos \in ConcurrentStores
    /\ session = [r \in TwoRuns |-> NoSession]
    /\ runs = <<>>
    /\ ret = NoValue
    /\ url = PyNone
    /\ tipo = PyNone
    /\ criteria = EmptyDict
    /\ state = NoState
    /\ fault = ""
    /\ visited = <<>>
    /\ caught = {}
    /\ judgment = NoValue

\* db = next(get_db()) of run r
OpenSession(r) ==
    /\ pc[r] = "idle"
    /\ session' = [session EXCEPT ![r] = open_concurrent(args.batches[r], eventos)]
    /\ pc' = [pc EXCEPT ![r] = "persisting"]
    /\ UNCHANGED <<url, tipo, criteria, state, fault, visited, caught, judgment, args,
                 ret, eventos, runs>>

\* one iteration of the loop of run r: the lookup and the update or db.add
ProcesarEvento(r) ==
    /\ pc[r] = "persisting"
    /\ session[r].i <= Len(session[r].batch)
    /\ \E found \in {existentes(eventos, session[r].batch[session[r].i], args.fuente_id)} :
       \E k \in (IF found = {} THEN {0} ELSE found) :
          session' = [session EXCEPT ![r] =
                         procesar_one_concurrent(@, eventos, k, @.batch[@.i],
                                                 args.fuente_id)]
    /\ UNCHANGED <<pc, url, tipo, criteria, state, fault, visited, caught, judgment,
                 args, ret, eventos, runs>>

\* db.commit() and db.close() of run r
CommitSession(r) ==
    /\ pc[r] = "persisting"
    /\ session[r].i > Len(session[r].batch)
    /\ eventos' = commit_concurrent(eventos, session[r])
    /\ runs' = Append(runs, [run |-> r, outcome |-> "committed",
                             batch |-> session[r].batch, before |-> session[r].before,
                             at_commit |-> eventos, after |-> eventos',
                             saved_count |-> session[r].saved_count,
                             duplicate_count |-> session[r].duplicate_count])
    /\ session' = [session EXCEPT ![r] = NoSession]
    /\ pc' = [pc EXCEPT ![r] = "done"]
    /\ UNCHANGED <<url, tipo, criteria, state, fault, visited, caught, judgment, args,
                 ret>>

NextConcurrent ==
    \E r \in TwoRuns : OpenSession(r) \/ ProcesarEvento(r) \/ CommitSession(r)

SpecConcurrent == InitConcurrent /\ [][NextConcurrent]_vars

(***************************************************************************)
(* SSReyesAgent.cleanup_duplicates (backend/agents/ssreyes_agent.py), the  *)
(* utility that removes stored duplicates. Rows of the source are those of *)
(* fuente_id 1, which the writers store together with its fuente_nombre.   *)
(***************************************************************************)
\* most rows in the table before a cleanup
MaxStored == 3

sMidnight == <<" ","0","0",":","0","0",":","0","0">>
\* str(evento.fecha_inicio) of a DateTime column written at midnight
str_datetime(fecha_inicio) == Str(isoformat(fecha_inicio) \o sMidnight)
\* the normalized event an incoming record of the row's title, date and location
\* gives: the date as a date, a missing location left out
incoming_like(evento) ==
    IF evento.ubicacion = PyNone
    THEN [titulo |-> evento.titulo, fecha_inicio |-> evento.fecha_inicio]
    ELSE [titulo |-> evento.titulo, fecha_inicio |-> evento.fecha_inicio,
          ubicacion |-> evento.ubicacion]
\* the dict cleanup_duplicates hands to _generate_hash for a row without hash
legacy_key(evento) ==
    [titulo |-> evento.titulo, fecha_inicio |-> str_datetime(evento.fecha_inicio),
     ubicacion |-> evento.ubicacion]
\* the filter of the query: the rows of the San Sebastian de los Reyes source
of_ssreyes(evento) == evento.fuente_id = 1
\* the loop over the rows from row k on: the rows with the missing hashes set, and
\* the positions deleted
RECURSIVE cleanup_from(_, _, _, _)
cleanup_from(rows, k, seen_hashes, deleted) ==
    IF k > Len(rows) THEN [rows |-> rows, deleted |-> deleted]
    ELSE IF ~of_ssreyes(rows[k]) THEN cleanup_from(rows, k + 1, seen_hashes, deleted)
    ELSE LET hash_contenido == IF ~Truthy(rows[k].hash_contenido)
                               THEN _generate_hash(legacy_key(rows[k]))
                               ELSE rows[k].hash_contenido
             hashed == [rows EXCEPT ![k].hash_contenido = hash_contenido]
         IN IF hash_contenido \in seen_hashes
            THEN cleanup_from(hashed, k + 1, seen_hashes, deleted \cup {k})
            ELSE cleanup_from(hashed, k + 1, seen_hashes \cup {hash_contenido}, deleted)
\* the rows left, in order
RECURSIVE without(_, _, _)
without(rows, deleted, k) ==
    IF k > Len(rows) THEN <<>>
    ELSE (IF k \in deleted THEN <<>> ELSE <<rows[k]>>) \o without(rows, deleted, k + 1)
\* cleanup_duplicates up to its commit
cleanup_duplicates(rows) ==
    LET done == cleanup_from(rows, 1, {}, {})
    IN [marked |-> done.rows, deleted |-> done.deleted,
        total_events_processed |->
            Cardinality({k \in 1..Len(rows) : of_ssreyes(rows[k])})]

\* the rows a table may hold: rows without hash, rows as the writers store them,
\* and a row of another source
sGala == <<"G","a","l","a"," ","A","n","u","a","l">>
HashedRow(titulo, ubicacion, fuente_id) ==
    Evento(Str(titulo), Day1, Str(sDeporte), Str(sGratis), ubicacion,
           _generate_hash(incoming_like(
               [titulo |-> Str(titulo), fecha_inicio |-> Day1, ubicacion |-> ubicacion])),
           fuente_id, PyNone)
StoredRows ==
    {LegacyRow(Str(sCentroSur)), LegacyRow(PyNone),
     HashedRow(sYogaParque, Str(sCentroSur), 1), HashedRow(sYogaParque, PyNone, 1),
     HashedRow(sGala, Str(sCentroSur), 1), HashedRow(sYogaParque, Str(sCentroSur), 2)}
StoredTables == ListsUpTo(StoredRows, MaxStored)

InitCleanup ==
    /\ pc = "idle"
    /\ eventos \in StoredTables
    /\ args = [caller |-> "cleanup", fuente_id |-> 1]
    /\ session = NoSession
    /\ runs = <<>>
    /\ ret = NoValue
    /\ url = PyNone
    /\ tipo = PyNone
    /\ criteria = EmptyDict
    /\ state = NoState
    /\ fault = ""
    /\ visited = <<>>
    /\ caught = {}
    /\ judgment = NoValue

\* cleanup_duplicates, committed
CleanupDuplicates ==
    /\ pc = "idle"
    /\ Len(runs) < MaxRuns
    /\ \E done \in {cleanup_duplicates(eventos)} :
          /\ eventos' = without(done.marked, done.deleted, 1)
          /\ runs' = Append(runs, [outcome |-> "committed", before |-> eventos,
                                   marked |-> done.marked, deleted |-> done.deleted,
                                   after |-> eventos'])
          /\ ret' = [duplicates_removed |-> Cardinality(done.deleted),
                     total_events_processed |-> done.total_events_processed]
    /\ UNCHANGED <<pc, url, tipo, criteria, state, fault, visited, caught, judgment, args,
                 session>>

\* the query, a delete or the commit raises: db.rollback() and the exception is
\* raised again
CleanupFails ==
    /\ pc = "idle"
    /\ Len(runs) < MaxRuns
    /\ runs' = Append(runs, [outcome |-> "failed", before |-> eventos, marked |-> eventos,
                             deleted |-> {}, after |-> eventos])
    /\ ret' = Raised
    /\ UNCHANGED <<pc, url, tipo, criteria, state, fault, visited, caught, judgment, args,
                 session, eventos>>

NextCleanup == CleanupDuplicates \/ CleanupFails

SpecCleanup == InitCleanup /\ [][NextCleanup]_vars

(***************************************************************************)
(* ScrapingEngine.execute_scraping (backend/scraping/engine.py) and the    *)
(* log row of each run: the table logs_scraping is kept in runs, the local *)
(* variables of execute_scraping in session. A step is what lies between   *)
(* two commits of _procesar_fuente.                                        *)
(***************************************************************************)
\* most rows of fuentes_web
MaxSources == 2

FuenteWeb(id, activa) == [id |-> id, activa |-> activa]
LogScraping(fuente_id, estado) ==
    [fuente_id |-> fuente_id, estado |-> estado, fecha_fin |-> PyNone,
     detalles_error |-> PyNone]
\* datetime.now(), as a value that is not None
Now == [t |-> "datetime"]
\* the sources execute_scraping goes through: the active ones, or the one asked
\* for when it is active
fuentes_of(fuentes_web, fuente_id) ==
    SelectSeq(fuentes_web,
              LAMBDA f : f.activa /\ (Truthy(fuente_id) => f.id = fuente_id.n))
\* variant: the row gets its end time and keeps its estado
_finalizar_log_keeping_estado(log, estado, error) ==
    [log EXCEPT !.fecha_fin = Now,
                !.detalles_error = IF Truthy(error) THEN error ELSE @]
\* _finalizar_log on the row found
_finalizar_log(log, estado, error) ==
    [log EXCEPT !.fecha_fin = Now, !.estado = estado,
                !.detalles_error = IF Truthy(error) THEN error ELSE @]
\* the loop body of execute_scraping after _procesar_fuente returned
count_resultado(results, estado) ==
    [total_ejecutadas |-> results.total_ejecutadas + 1,
     exitosas |-> results.exitosas + (IF estado = "success" THEN 1 ELSE 0),
     errores |-> results.errores + (IF estado = "success" THEN 0 ELSE 1),
     detalles |-> Append(results.detalles, estado)]

FuentesWebTables ==
    UNION {{[k \in 1..n |-> FuenteWeb(k, activa[k])] : activa \in [1..n -> BOOLEAN]} :
           n \in 0..MaxSources}
sPipelineError == <<"p","i","p","e","l","i","n","e"," ","e","r","r","o","r">>
\* str(e) of the exception caught
ErrorMessages == {Str(sPipelineError), Str(<<>>)}

InitEngine ==
    /\ pc = "idle"
    /\ args \in [fuente_id : {PyNone, Num(1), Num(MaxSources + 1)},
                 fuentes_web : FuentesWebTables]
    /\ runs = <<>>
    /\ session = NoSession
    /\ ret = NoValue
    /\ eventos = <<>>
    /\ url = PyNone
    /\ tipo = PyNone
    /\ criteria = EmptyDict
    /\ state = NoState
    /\ fault = ""
    /\ visited = <<>>
    /\ caught = {}
    /\ judgment = NoValue

\* an exception leaves _procesar_fuente, and execute_scraping with it
Propagates ==
    /\ ret' = Raised
    /\ pc' = "returned"
\* _procesar_fuente returns its resultado and the loop counts it
Returns(estado) ==
    /\ session' = [session EXCEPT !.results = count_resultado(@, estado),
                                  !.i = @ + 1, !.log_id = 0]
    /\ pc' = "loop"
    /\ UNCHANGED ret

\* execute_scraping up to its loop: the query of the sources
ExecuteScraping ==
    /\ pc = "idle"
    /\ \E queried \in BOOLEAN :
          IF queried
          THEN /\ session' = [fuentes |-> fuentes_of(args.fuentes_web, args.fuente_id),
                              i |-> 1, log_id |-> 0, error_msg |-> PyNone,
                              results |-> [total_ejecutadas |-> 0, exitosas |-> 0,
                                           errores |-> 0, detalles |-> <<>>]]
               /\ pc' = "loop"
               /\ UNCHANGED ret
          ELSE Propagates /\ UNCHANGED session
    /\ UNCHANGED <<url, tipo, criteria, state, fault, visited, caught, judgment, args,
                 eventos, runs>>

\* _procesar_fuente: the log row is created in estado running
CreateLog ==
    /\ pc = "loop"
    /\ session.i <= Len(session.fuentes)
    /\ \E outcome \in {"created", "commit_raised", "refresh_raised"} :
          /\ runs' = IF outcome = "commit_raised" THEN runs
                     ELSE Append(runs, LogScraping(session.fuentes[session.i].id,
                                                   "running"))
          /\ IF outcome = "created"
             THEN /\ session' = [session EXCEPT !.log_id = Len(runs')]
                  /\ pc' = "pipeline"
                  /\ UNCHANGED ret
             ELSE Propagates /\ UNCHANGED session
    /\ UNCHANGED <<url, tipo, criteria, state, fault, visited, caught, judgment, args,
                 eventos>>

\* the pipeline, _procesar_eventos and the update of the source: they end, or one
\* of them raises
RunPipeline ==
    /\ pc = "pipeline"
    /\ \/ pc' = "finalizing" /\ UNCHANGED session
       \/ \E error_msg \in ErrorMessages :
             /\ session' = [session EXCEPT !.error_msg = error_msg]
             /\ pc' = "handling"
    /\ UNCHANGED <<url, tipo, criteria, state, fault, visited, caught, judgment, args,
                 ret, eventos, runs>>

\* _finalizar_log(log_id, "success", ...) and the return of the resultado
FinalizeSuccess ==
    /\ pc = "finalizing"
    /\ \/ /\ runs' = [runs EXCEPT ![session.log_id] = _finalizar_log(@, "success", PyNone)]
          /\ Returns("success")
       \/ \E error_msg \in ErrorMessages :
             /\ session' = [session EXCEPT !.error_msg = error_msg]
             /\ pc' = "handling"
             /\ UNCHANGED <<runs, ret>>
    /\ UNCHANGED <<url, tipo, criteria, state, fault, visited, caught, judgment, args,
                 eventos>>

\* the except block: the source is updated and _finalizar_log(log_id, "error", ...)
\* is called, with nothing around them that catches
HandleError ==
    /\ pc = "handling"
    /\ \/ /\ runs' = [runs EXCEPT ![session.log_id] =
                         _finalizar_log(@, "error", session.error_msg)]
          /\ Returns("error")
       \/ Propagates /\ UNCHANGED <<runs, session>>
    /\ UNCHANGED <<url, tipo, criteria, state, fault, visited, caught, judgment, args,
                 eventos>>

\* return results
ReturnResults ==
    /\ pc = "loop"
    /\ session.i > Len(session.fuentes)
    /\ ret' = session.results
    /\ pc' = "returned"
    /\ UNCHANGED <<url, tipo, criteria, state, fault, visited, caught, judgment, args,
                 eventos, session, runs>>

NextEngine ==
    \/ ExecuteScraping
    \/ CreateLog
    \/ RunPipeline
    \/ FinalizeSuccess
    \/ HandleError
    \/ ReturnResults

SpecEngine == InitEngine /\ [][NextEngine]_vars

(***************************************************************************)
(* rank_content_by_strategy (backend/tools/content_prioritization_tools.py)*)
(* applied on its own. The scores of the input items and the weights are   *)
(* counted in tenths; the final score of a list of n items is counted in   *)
(* 1/(100 n), in which every quotient the code takes is whole.             *)
(***************************************************************************)
DefaultWeights ==
    [temporal_score |-> 4, relevance_score |-> 3, confidence_score |-> 2,
     position_score |-> 1]
\* default_weights.update(weights) when weights is given and not empty
weights_used(weights) ==
    IF weights = PyNone \/ DOMAIN weights = {} THEN DefaultWeights
    ELSE [k \in DOMAIN DefaultWeights \cup DOMAIN weights |->
             IF k \in DOMAIN weights THEN weights[k] ELSE DefaultWeights[k]]
\* 1.0 - (position / total_items), in 1/total_items
position_score(position, total_items) == total_items - position
Min(a, b) == IF a <= b THEN a ELSE b
_calculate_combined_score(item, weights, position, total_items) ==
    LET temporal_score == GetDefault(item, "relevance_score", Num(0))
        relevance_score == GetDefault(item, "confidence_score", Num(0))
    IN IF temporal_score.t # "num" \/ relevance_score.t # "num" THEN Raised
       ELSE Num(Min((temporal_score.n * weights.temporal_score
                     + relevance_score.n * weights.relevance_score
                     + relevance_score.n * weights.confidence_score) * total_items
                    + position_score(position, total_items) * 10 * weights.position_score,
                    100 * total_items))
\* a score read off the item, brought to 1/(100 total_items)
read_score(item, key, total_items) ==
    LET score == GetDefault(item, key, Num(0))
    IN IF score.t = "num" THEN Num(score.n * 10 * total_items) ELSE score
final_score_of(item, position, total_items, ranking_strategy, weights) ==
    IF ranking_strategy = "temporal" THEN read_score(item, "relevance_score", total_items)
    ELSE IF ranking_strategy = "relevance"
    THEN read_score(item, "confidence_score", total_items)
    ELSE IF ranking_strategy = "position"
    THEN Num(position_score(position, total_items) * 100)
    ELSE _calculate_combined_score(item, weights, position, total_items)
\* f"... (score: {final_score:.3f})" raises on a score that is not a number
_generate_ranking_explanation(item, strategy, final_score) ==
    IF final_score = Raised \/ final_score.t # "num" THEN Raised
    ELSE [by |-> IF strategy \in {"temporal", "relevance", "position"} THEN strategy
                 ELSE "combined",
          score |-> final_score.n]
\* one iteration of the scoring loop: the copy of the item with its score
scored_item(item, position, total_items, ranking_strategy, weights) ==
    LET final_score == final_score_of(item, position, total_items, ranking_strategy, weights)
        explanation == _generate_ranking_explanation(item, ranking_strategy, final_score)
    IN IF explanation = Raised THEN Raised
       ELSE Put(Put(Put(item, "final_score", final_score),
                    "ranking_strategy", ranking_strategy),
                "ranking_explanation", explanation)
scored_items(content_items, ranking_strategy, weights) ==
    [i \in 1..Len(content_items) |->
        scored_item(content_items[i], i - 1, Len(content_items), ranking_strategy, weights)]
\* variant: elements of the same key come out in reverse order
sorted_place_unstable(keys, i) ==
    1 + Cardinality({j \in 1..Len(keys) : keys[j] > keys[i] \/ (keys[j] = keys[i] /\ j > i)})
\* where list.sort(key=..., reverse=True) puts element i: behind every element of
\* a higher key and behind the earlier elements of the same key
sorted_place(keys, i) ==
    1 + Cardinality({j \in 1..Len(keys) : keys[j] > keys[i] \/ (keys[j] = keys[i] /\ j < i)})
sort_reverse(items, keys) ==
    [p \in 1..Len(items) |->
        items[CHOOSE i \in 1..Len(items) : sorted_place(keys, i) = p]]
\* for rank, item in enumerate(ranked_items, 1): item[rank_key] = rank
add_ranks(items, rank_key) ==
    [p \in 1..Len(items) |-> Put(items[p], rank_key, p)]
ranked(scored) ==
    add_ranks(sort_reverse(scored, [i \in 1..Len(scored) |-> scored[i]["final_score"].n]),
              "final_rank")
ranking_response(scored, ranking_strategy, weights) ==
    IF \E i \in 1..Len(scored) : scored[i] = Raised
    THEN _create_error_response("Content ranking failed")
    ELSE _create_success_response(
            ranked(scored),
            [ranking_strategy |-> ranking_strategy,
             weights_used |-> weights,
             items_ranked |-> Len(scored),
             top_score |-> ranked(scored)[1]["final_score"]])
rank_content_by_strategy(content_items, ranking_strategy, weights) ==
    IF content_items = <<>> THEN _create_error_response("No content items provided")
    ELSE ranking_response(scored_items(content_items, ranking_strategy,
                                       weights_used(weights)),
                          ranking_strategy, weights_used(weights))

\* items as the analyses leave them: a temporal score and a content score, either
\* of which may be missing or None
ContentItem(id, relevance_score, confidence_score) ==
    WithKey(WithKey([id |-> id], "relevance_score", relevance_score),
            "confidence_score", confidence_score)
ContentItems ==
    {ContentItem("a", Present(Num(9)), Present(Num(5))),
     ContentItem("b", Present(Num(9)), Present(Num(2))),
     ContentItem("c", Present(Num(3)), Present(Num(5))),
     ContentItem("d", Absent, Absent),
     ContentItem("e", Present(PyNone), Present(Num(10)))}
ContentLists == ListsUpTo(ContentItems, MaxItems)
RankingStrategies == {"temporal", "relevance", "position", "combined", "newest"}
RankingWeights == {PyNone, [position_score |-> 0, temporal_score |-> 10]}

InitRank ==
    /\ pc = "ranking"
    /\ args \in [content_items : ContentLists, ranking_strategy : RankingStrategies,
                 weights : RankingWeights]
    /\ ret = NoValue
    /\ url = PyNone
    /\ tipo = PyNone
    /\ criteria = EmptyDict
    /\ state = NoState
    /\ fault = ""
    /\ visited = <<>>
    /\ caught = {}
    /\ judgment = NoValue
    /\ eventos = <<>>
    /\ session = NoSession
    /\ runs = <<>>

RankContentByStrategy ==
    /\ pc = "ranking"
    /\ ret' = rank_content_by_strategy(args.content_items, args.ranking_strategy,
                                       args.weights)
    /\ pc' = "ranked"
    /\ UNCHANGED <<url, tipo, criteria, state, fault, visited, caught, judgment, args,
                 eventos, session, runs>>

NextRank == RankContentByStrategy

SpecRank == InitRank /\ [][NextRank]_vars

(***************************************************************************)
(* prioritize_by_temporal_relevance (backend/tools/temporal_analysis_tools *)
(* .py) applied on its own. A date_info is the dict _extract_all_date_     *)
(* patterns builds; scores and confidences are counted in hundredths.      *)
(***************************************************************************)
\* most dates attached to the first item, and most further items, of a call
MaxDates == 2
MaxOthers == 1
\* the interpreter's recursion limit, cut down: a call nested deeper than this
\* raises RecursionError
MaxRecursion == 2

month_range(start_month, end_month, year, original_text) ==
    [type |-> "month_range", start_month |-> start_month, end_month |-> end_month,
     year |-> year, original_text |-> original_text, confidence |-> 95]
month_year(month, year, original_text) ==
    [type |-> "month_year", month |-> month, year |-> year,
     original_text |-> original_text, confidence |-> 90]
full_date(day, month, year, original_text) ==
    [type |-> "full_date", day |-> day, month |-> month, year |-> year,
     original_text |-> original_text, confidence |-> 80]
month_year_numeric(month, year, original_text) ==
    [type |-> "month_year_numeric", month |-> month, year |-> year,
     original_text |-> original_text, confidence |-> 70]

\* date_info.get(key) is truthy
HasNumber(date_info, key) == key \in DOMAIN date_info /\ date_info[key] # 0
\* date_info.get(key) == value
KeyIs(date_info, key, value) == key \in DOMAIN date_info /\ date_info[key] = value
Max(a, b) == IF a >= b THEN a ELSE b
Abs(a) == IF a >= 0 THEN a ELSE -a
\* (target_date - reference_date).days
RECURSIVE DaysBeforeMonth(_, _)
DaysBeforeMonth(y, m) ==
    IF m = 1 THEN 0 ELSE DaysBeforeMonth(y, m - 1) + DaysInMonth(y, m - 1)
DayNumber(d) ==
    365 * (d.y - 1) + ((d.y - 1) \div 4) - ((d.y - 1) \div 100) + ((d.y - 1) \div 400)
    + DaysBeforeMonth(d.y, d.m) + d.d
DaysBetween(target_date, reference_date) == DayNumber(target_date) - DayNumber(reference_date)

\* the score of one date under the strategy, before the month-range rule
latest_score(date_info, reference_date) ==
    IF ~HasNumber(date_info, "year") \/ date_info.year - reference_date.y < 0 THEN Num(0)
    ELSE LET score == 100 - (date_info.year - reference_date.y) * 10
             month_diff == (date_info.year - reference_date.y) * 12
                           + date_info.month - reference_date.m
         IN IF HasNumber(date_info, "month") /\ month_diff >= 0
            THEN Num(score + 50 - month_diff * 5)
            ELSE Num(score)
current_month_score(date_info, reference_date) ==
    IF KeyIs(date_info, "year", reference_date.y) /\ KeyIs(date_info, "month", reference_date.m)
    THEN Num(100)
    ELSE IF KeyIs(date_info, "year", reference_date.y)
    THEN (IF "month" \in DOMAIN date_info
          THEN Num(Max(0, 80 - Abs(date_info.month - reference_date.m) * 10))
          ELSE Raised)
    ELSE Num(0)
relevant_period_score(date_info, reference_date) ==
    IF HasNumber(date_info, "year") /\ HasNumber(date_info, "month")
    THEN LET days_diff == DaysBetween(Date(date_info.year, date_info.month, 1),
                                      reference_date)
         IN IF -30 <= days_diff /\ days_diff <= 60 THEN Num(100 - Abs(days_diff))
            ELSE Num(0)
    ELSE Num(0)
strategy_score(date_info, strategy, reference_date) ==
    CASE strategy = "latest" -> latest_score(date_info, reference_date)
      [] strategy = "current_month" -> current_month_score(date_info, reference_date)
      [] strategy = "relevant_period" -> relevant_period_score(date_info, reference_date)
      [] OTHER -> Num(0)

\* the later month of a range, when the range rule applies
end_month_of(date_info) ==
    IF date_info.type # "month_range" THEN 0
    ELSE IF "end_month" \in DOMAIN date_info THEN date_info.end_month
    ELSE IF "start_month" \in DOMAIN date_info THEN date_info.start_month
    ELSE 0
\* date_info.copy() with month set: the copy is a month_range still
date_info_copy(date_info, end_month) ==
    [k \in (DOMAIN date_info) \cup {"month"} |->
        IF k = "month" THEN end_month ELSE date_info[k]]
\* _calculate_relevance_score called at a nesting depth
RECURSIVE relevance_at(_, _, _, _)
\* one iteration of its loop
date_score(date_info, strategy, reference_date, depth) ==
    LET score == strategy_score(date_info, strategy, reference_date)
        end_month == end_month_of(date_info)
    IN IF score = Raised THEN Raised
       ELSE IF end_month = 0 THEN score
       ELSE LET range_score == relevance_at(<<date_info_copy(date_info, end_month)>>,
                                            strategy, reference_date, depth + 1)
            IN IF range_score = Raised THEN Raised
               ELSE Num(Max(score.n, range_score.n + 10))
RECURSIVE max_score_of(_, _, _, _, _)
max_score_of(extracted_dates, strategy, reference_date, depth, max_score) ==
    IF extracted_dates = <<>> THEN Num(Min(max_score, 100))
    ELSE LET score == date_score(extracted_dates[1], strategy, reference_date, depth)
         IN IF score = Raised THEN Raised
            ELSE max_score_of(Tail(extracted_dates), strategy, reference_date, depth,
                              Max(max_score, score.n))
relevance_at(extracted_dates, strategy, reference_date, depth) ==
    IF depth > MaxRecursion THEN Raised
    ELSE IF extracted_dates = <<>> THEN Num(0)
    ELSE max_score_of(extracted_dates, strategy, reference_date, depth, 0)
_calculate_relevance_score(extracted_dates, strategy, reference_date) ==
    relevance_at(extracted_dates, strategy, reference_date, 0)

\* max(extracted_dates, key=confidence): the first date of the highest confidence
ConfidenceOf(date_info) ==
    IF "confidence" \in DOMAIN date_info THEN date_info.confidence ELSE 0
best_date_of(extracted_dates) ==
    extracted_dates[CHOOSE i \in 1..Len(extracted_dates) :
        /\ \A j \in 1..Len(extracted_dates) :
              ConfidenceOf(extracted_dates[j]) <= ConfidenceOf(extracted_dates[i])
        /\ \A j \in 1..(i - 1) :
              ConfidenceOf(extracted_dates[j]) < ConfidenceOf(extracted_dates[i])]
date_str_of(best_date) ==
    IF best_date.type = "month_range"
    THEN [start_month |-> IF "start_month" \in DOMAIN best_date THEN best_date.start_month
                          ELSE 1,
          end_month |-> IF "end_month" \in DOMAIN best_date THEN best_date.end_month ELSE 1,
          year |-> best_date.year]
    ELSE IF HasNumber(best_date, "month") /\ HasNumber(best_date, "year")
    THEN [month |-> best_date.month, year |-> best_date.year]
    ELSE [text |-> best_date.original_text]
_generate_priority_reasoning(extracted_dates, strategy, reference_date) ==
    IF extracted_dates = <<>> THEN [text |-> "No dates found"]
    ELSE [by |-> IF strategy \in {"latest", "current_month"} THEN strategy
                 ELSE "relevancia temporal",
          date_str |-> date_str_of(best_date_of(extracted_dates))]

\* one iteration of the loop: the copy of the item with score and reasoning
prioritized_item(item, strategy, reference_date) ==
    IF "extracted_dates" \notin DOMAIN item THEN Raised
    ELSE LET relevance_score ==
                 _calculate_relevance_score(item.extracted_dates, strategy, reference_date)
         IN IF relevance_score = Raised THEN Raised
            ELSE Put(Put(item, "relevance_score", relevance_score),
                     "priority_reasoning",
                     _generate_priority_reasoning(item.extracted_dates, strategy,
                                                  reference_date))
prioritized_items(items_with_dates, strategy, reference_date) ==
    [i \in 1..Len(items_with_dates) |->
        prioritized_item(items_with_dates[i], strategy, reference_date)]
\* _create_error_response(error_msg, data): data or []
_create_error_response_with(error_msg, data) ==
    [success |-> FALSE, data |-> data, errors |-> <<error_msg>>,
     metadata |-> [error_occurred |-> TRUE]]
prioritization_response(items_with_dates, prioritized, strategy, reference_date) ==
    IF \E i \in 1..Len(prioritized) : prioritized[i] = Raised
    THEN _create_error_response_with("Prioritization failed", items_with_dates)
    ELSE LET ordered == add_ranks(
                 sort_reverse(prioritized, [i \in 1..Len(prioritized) |->
                                               prioritized[i]["relevance_score"].n]),
                 "rank")
         IN _create_success_response(
                ordered,
                [prioritization_strategy |-> strategy,
                 reference_date |-> reference_date,
                 items_ranked |-> Len(ordered),
                 top_item_score |-> IF ordered # <<>> THEN ordered[1]["relevance_score"]
                                    ELSE Num(0)])
prioritize_by_temporal_relevance(items_with_dates, strategy, reference_date) ==
    IF reference_date = Raised
    THEN _create_error_response_with("Prioritization failed", items_with_dates)
    ELSE prioritization_response(items_with_dates,
                                 prioritized_items(items_with_dates, strategy,
                                                   reference_date),
                                 strategy, reference_date)

\* the dates the calls are run on
JulioAgosto2025 == month_range(7, 8, 2025, "julio y agosto 2025")
Julio2025 == month_year(7, 2025, "julio 2025")
Enero2024 == month_year(1, 2024, "enero 2024")
Julio20 == full_date(20, 7, 2025, "20/07/2025")
Sept2025 == month_year_numeric(9, 2025, "09/2025")
DateInfos == {JulioAgosto2025, Julio2025, Enero2024, Julio20, Sept2025}
DatedItem(id, extracted_dates) == [id |-> id, extracted_dates |-> extracted_dates]
FirstItems == {DatedItem("first", dates) : dates \in ListsUpTo(DateInfos, MaxDates)}
OtherItems ==
    {DatedItem("single", <<Julio2025>>), DatedItem("past", <<Enero2024>>), [id |-> "bare"]}
DatedLists ==
    {<<first>> \o others : first \in FirstItems, others \in ListsUpTo(OtherItems, MaxOthers)}
    \cup {<<>>}
TemporalStrategies == {"latest", "current_month", "relevant_period", "newest"}
\* base_date as given (None: today), and the date it is read as
BaseDates == {PyNone, Date(2025, 7, 15), Date(2025, 8, 20), Str(<<"1","5","/","0","7">>)}
Todays == {Date(2025, 7, 15), Date(2026, 1, 2)}
ReferenceDates(base_date) ==
    IF base_date = PyNone THEN Todays
    ELSE IF base_date.t = "date" THEN {base_date}
    ELSE {Raised}

InitTemporal ==
    /\ pc = "prioritizing"
    /\ args \in [items_with_dates : DatedLists, strategy : TemporalStrategies,
                 base_date : BaseDates]
    /\ ret = NoValue
    /\ url = PyNone
    /\ tipo = PyNone
    /\ criteria = EmptyDict
    /\ state = NoState
    /\ fault = ""
    /\ visited = <<>>
    /\ caught = {}
    /\ judgment = NoValue
    /\ eventos = <<>>
    /\ session = NoSession
    /\ runs = <<>>

PrioritizeByTemporalRelevance ==
    /\ pc = "prioritizing"
    /\ \E reference_date \in ReferenceDates(args.base_date) :
          ret' = [reference_date |-> reference_date,
                  response |-> prioritize_by_temporal_relevance(
                                   args.items_with_dates, args.strategy, reference_date)]
    /\ pc' = "prioritized"
    /\ UNCHANGED <<url, tipo, criteria, state, fault, visited, caught, judgment, args,
                 eventos, session, runs>>

NextTemporal == PrioritizeByTemporalRelevance

SpecTemporal == InitTemporal /\ [][NextTemporal]_vars

(***************************************************************************)
(* detect_temporal_patterns (backend/tools/temporal_analysis_tools.py)     *)
(* applied on its own.                                                     *)
(***************************************************************************)
\* longest list of labels handed to detect_temporal_patterns
MaxLabels == 4

spanish_months ==
    <<<<"e","n","e","r","o">>,
      <<"f","e","b","r","e","r","o">>,
      <<"m","a","r","z","o">>,
      <<"a","b","r","i","l">>,
      <<"m","a","y","o">>,
      <<"j","u","n","i","o">>,
      <<"j","u","l","i","o">>,
      <<"a","g","o","s","t","o">>,
      <<"s","e","p","t","i","e","m","b","r","e">>,
      <<"o","c","t","u","b","r","e">>,
      <<"n","o","v","i","e","m","b","r","e">>,
      <<"d","i","c","i","e","m","b","r","e">>>>
\* the first month of the list that is in the item lowered (0: none is)
first_month_in(item) ==
    LET found == {k \in 1..Len(spanish_months) : contains(lower(item), spanish_months[k])}
    IN IF found = {} THEN 0 ELSE CHOOSE k \in found : \A j \in found : k <= j
\* the loop over the items: how many hold a month, and which months were met
months_of(content_items) ==
    [i \in 1..Len(content_items) |-> first_month_in(content_items[i])]
monthly_items_of(months) == Cardinality({i \in 1..Len(months) : months[i] # 0})
months_found_of(months) ==
    {spanish_months[months[i]] : i \in {j \in 1..Len(months) : months[j] # 0}}
\* \b: between a word character and none
IsWordChar(c) == IsLetter(c) \/ IsDigit(c) \/ c = "_"
WordBoundary(item, i) ==
    (i >= 1 /\ i <= Len(item) /\ IsWordChar(item[i]))
        # (i + 1 >= 1 /\ i + 1 <= Len(item) /\ IsWordChar(item[i + 1]))
\* re.findall(r"\b(20\d{2})\b", item), as a set
years_in(item) ==
    {SubSeq(item, i, i + 3) : i \in {k \in 1..(Len(item) - 3) :
        /\ item[k] = "2"
        /\ item[k + 1] = "0"
        /\ IsDigit(item[k + 2])
        /\ IsDigit(item[k + 3])
        /\ WordBoundary(item, k - 1)
        /\ WordBoundary(item, k + 3)}}
years_of(content_items) == [i \in 1..Len(content_items) |-> years_in(content_items[i])]
yearly_items_of(years) == Cardinality({i \in 1..Len(years) : years[i] # {}})
years_found_of(years) == UNION {years[i] : i \in 1..Len(years)}
\* variant: half of the items are enough
monthly_detected_from_half(monthly_items, total) == monthly_items * 2 >= total
\* monthly_confidence > 0.5
monthly_detected(monthly_items, total) == monthly_items * 2 > total
\* yearly_confidence > 0.3 and len(years_found) > 1
yearly_detected(yearly_items, total, years_found) ==
    yearly_items * 10 > total * 3 /\ Cardinality(years_found) > 1
monthly_pattern_of(months) ==
    [detected |-> monthly_detected(monthly_items_of(months), Len(months)),
     confidence |-> Ratio(monthly_items_of(months), Len(months)),
     monthly_items |-> monthly_items_of(months),
     months_found |-> months_found_of(months)]
yearly_pattern_of(years) ==
    [detected |-> yearly_detected(yearly_items_of(years), Len(years), years_found_of(years)),
     confidence |-> Ratio(yearly_items_of(years), Len(years)),
     yearly_items |-> yearly_items_of(years),
     years_found |-> years_found_of(years)]
\* both confidences are over the same number of items
dominant_pattern_of(monthly_pattern, yearly_pattern) ==
    IF monthly_pattern.detected /\ monthly_pattern.confidence.num > yearly_pattern.confidence.num
    THEN "monthly_series"
    ELSE IF yearly_pattern.detected THEN "yearly_series"
    ELSE "none"
recommendations_for(dominant_pattern) ==
    CASE dominant_pattern = "monthly_series" ->
            <<"Use latest month prioritization", "Focus on most recent month content">>
      [] dominant_pattern = "yearly_series" -> <<"Prioritize current year content">>
      [] OTHER -> <<"No clear temporal pattern - use content-based prioritization">>
patterns_response(monthly_pattern, yearly_pattern, dominant_pattern) ==
    _create_success_response(
        [monthly_pattern |-> monthly_pattern,
         yearly_pattern |-> yearly_pattern,
         dominant_pattern |-> dominant_pattern,
         has_temporal_organization |-> monthly_pattern.detected \/ yearly_pattern.detected,
         recommendations |-> recommendations_for(dominant_pattern)],
        [detection_method |-> "temporal_patterns", dominant_pattern |-> dominant_pattern])
patterns_found(monthly_pattern, yearly_pattern) ==
    patterns_response(monthly_pattern, yearly_pattern,
                      dominant_pattern_of(monthly_pattern, yearly_pattern))
detect_temporal_patterns(content_items) ==
    IF content_items = <<>> THEN _create_error_response("No content items provided")
    ELSE patterns_found(monthly_pattern_of(months_of(content_items)),
                        yearly_pattern_of(years_of(content_items)))

\* labels with and without a month name (mayor holds mayo) and a year token
Labels ==
    {<<"j","u","l","i","o"," ","2","0","2","5">>,
     <<"M","a","y","o"," ","2","0","2","4">>,
     <<"m","a","y","o","r">>,
     <<"2","0","2","4","-","2","0","2","5">>,
     <<"a","2","0","2","5","1">>}
LabelLists == ListsUpTo(Labels, MaxLabels)

InitPatterns ==
    /\ pc = "detecting"
    /\ args \in [content_items : LabelLists]
    /\ ret = NoValue
    /\ url = PyNone
    /\ tipo = PyNone
    /\ criteria = EmptyDict
    /\ state = NoState
    /\ fault = ""
    /\ visited = <<>>
    /\ caught = {}
    /\ judgment = NoValue
    /\ eventos = <<>>
    /\ session = NoSession
    /\ runs = <<>>

DetectTemporalPatterns ==
    /\ pc = "detecting"
    /\ ret' = detect_temporal_patterns(args.content_items)
    /\ pc' = "detected"
    /\ UNCHANGED <<url, tipo, criteria, state, fault, visited, caught, judgment, args,
                 eventos, session, runs>>

NextPatterns == DetectTemporalPatterns

SpecPatterns == InitPatterns /\ [][NextPatterns]_vars

(***************************************************************************)
(* EventNormalizer._normalize_price (backend/services/event_normalizer.py) *)
(* applied on its own.                                                     *)
(***************************************************************************)
\* most blanks put around a price text
MaxBlanks == 1

PriceHeads == {<<>>, <<"E","n","t","r","a","d","a"," ">>, <<"d","e","s","d","e"," ">>}
PriceCores == {<<"l","i","b","r","e">>,
               <<"G","R","A","T","I","S">>,
               <<"7",",","5","0">>,
               <<"1","2">>,
               <<"a"," ","c","o","n","s","u","l","t","a","r">>,
               <<>>,
               <<"3",".","5">>,
               <<"c","o","n","s","u","l","t","a","r"," ","e","n"," ","t","a","q","u","i","l","l","a">>,
               <<"F","r","e","e"," ","1","0">>}
PriceTails == {<<>>,
               <<" ","€">>,
               <<" ","e","u","r","o","s">>,
               <<" ","p","o","r"," ","p","e","r","s","o","n","a"," ","y"," ","d","i","a">>}
Blanks(n) == [i \in 1..n |-> " "]
PriceTexts ==
    {Blanks(before) \o head \o core \o tail \o Blanks(after) :
        before \in 0..MaxBlanks, after \in 0..MaxBlanks,
        head \in PriceHeads, core \in PriceCores, tail \in PriceTails}
\* what evento.get("precio", "") may hand over
PriceValues == {Str(text) : text \in PriceTexts} \cup {PyNone, Num(5)}

InitPrice ==
    /\ pc = "price"
    /\ args \in [precio : PriceValues]
    /\ ret = NoValue
    /\ url = PyNone
    /\ tipo = PyNone
    /\ criteria = EmptyDict
    /\ state = NoState
    /\ fault = ""
    /\ visited = <<>>
    /\ caught = {}
    /\ judgment = NoValue
    /\ eventos = <<>>
    /\ session = NoSession
    /\ runs = <<>>

NormalizePrice ==
    /\ pc = "price"
    /\ ret' = _normalize_price(args.precio)
    /\ pc' = "priced"
    /\ UNCHANGED <<url, tipo, criteria, state, fault, visited, caught, judgment, args,
                 eventos, session, runs>>

NextPrice == NormalizePrice

SpecPrice == InitPrice /\ [][NextPrice]_vars

(***************************************************************************)
(* EventNormalizer._apply_field_mapping (backend/services/                 *)
(* event_normalizer.py) applied on its own.                                *)
(***************************************************************************)
\* most fields of a raw record handed to _apply_field_mapping
MaxFields == 3

\* a mapping with a dotted destination outside datos_extra
ContactMapeo ==
    << <<"titulo", <<"titulo">> >>, <<"tel", <<"contacto", "telefono">> >> >>
\* a mapping that sends two source fields to one destination
MergingMapeo ==
    << <<"titulo", <<"titulo">> >>, <<"nota", <<"titulo">> >> >>
MappingConfigs == {PipelineMapeo, NestedMapeo, ContactMapeo, MergingMapeo}
RawFieldNames == {"titulo", "tel", "telefono", "nota"}
RawFieldValues == {Str(<<"Y","o","g","a">>), Str(<<"9","1","2">>), Str(<<>>)}
MappingRaws ==
    UNION {[names -> RawFieldValues] :
              names \in {S \in SUBSET RawFieldNames : Cardinality(S) <= MaxFields}}

InitMapping ==
    /\ pc = "mapping"
    /\ args \in [evento_raw : MappingRaws, mapeo_campos : MappingConfigs]
    /\ ret = NoValue
    /\ url = PyNone
    /\ tipo = PyNone
    /\ criteria = EmptyDict
    /\ state = NoState
    /\ fault = ""
    /\ visited = <<>>
    /\ caught = {}
    /\ judgment = NoValue
    /\ eventos = <<>>
    /\ session = NoSession
    /\ runs = <<>>

ApplyFieldMapping ==
    /\ pc = "mapping"
    /\ ret' = _apply_field_mapping(args.evento_raw, args.mapeo_campos)
    /\ pc' = "mapped"
    /\ UNCHANGED <<url, tipo, criteria, state, fault, visited, caught, judgment, args,
                 eventos, session, runs>>

NextMapping == ApplyFieldMapping

SpecMapping == InitMapping /\ [][NextMapping]_vars

(***************************************************************************)
(* The calls that leave the process: converter.convert in                  *)
(* extract_multiple_pdfs (tools/pdf_tools.py) and chain.ainvoke in         *)
(* SupervisorAgent._llm_supervision. Here visited is the history of the    *)
(* calls made, one entry per attempt, and state holds the locals of        *)
(* extract_multiple_pdfs.                                                  *)
(***************************************************************************)
MaxPdfs == 3
MaxSections == 2

\* what a call that raised raised: "transient" (network, 5xx) or "malformed"
\* (the input was refused)
Failure(kind) == [t |-> "raised", kind |-> kind]
FailureKinds == {"transient", "malformed"}
IsFailure(outcome) == outcome \in {Failure(kind) : kind \in FailureKinds}
\* the text of a converted document, as its sections
Content(sections) == [t |-> "content", sections |-> sections]

\* one attempt of a call: which call it is (the index of the pdf in pdf_urls, 0
\* for the judgment call), what it was made on and what came of it
Attempt(call, target, outcome) == [call |-> call, target |-> target, outcome |-> outcome]

\* _extract_events_from_text for one section: a section is given by what each
\* pattern would match in it, already stripped; patterns is the set of the fields
\* that have a pattern
event_data_of(section, patterns, source_url, i) ==
    Put(Put(Put([field \in patterns \cap DOMAIN section |-> section[field]],
                "url_original", source_url),
            "extraction_method", "pdf_text"),
        "section_index", Num(i))
has_required_fields(event_data) ==
    Truthy(Get(event_data, "titulo")) \/ Truthy(Get(event_data, "fecha"))
RECURSIVE events_from(_, _, _, _)
events_from(content, patterns, source_url, i) ==
    IF i >= Len(content) THEN <<>>
    ELSE (IF has_required_fields(event_data_of(content[i + 1], patterns, source_url, i))
          THEN <<event_data_of(content[i + 1], patterns, source_url, i)>>
          ELSE <<>>)
         \o events_from(content, patterns, source_url, i + 1)
_extract_events_from_text(content, patterns, source_url) ==
    events_from(content, patterns, source_url, 0)

pdf_error_msg(pdf_url, e) == [msg |-> "Failed to process PDF", pdf_url |-> pdf_url, e |-> e.kind]
\* variant: the except block of the loop records nothing
pdf_failed_unrecorded(st, error_msg) ==
    [st EXCEPT !.i = @ + 1]
\* the except block inside the loop of extract_multiple_pdfs
pdf_failed(st, error_msg) ==
    [st EXCEPT !.processing_errors = Append(@, error_msg), !.i = @ + 1]
\* the try block inside the loop, the document converted to content
pdf_converted(st, events) ==
    [st EXCEPT !.all_events = @ \o events, !.i = @ + 1]
\* one turn of the loop: result is what converter.convert and export_to_markdown
\* came to, the content of the document or a failure
process_pdf(st, pdf_url, result, extraction_patterns) ==
    IF IsFailure(result) THEN pdf_failed(st, pdf_error_msg(pdf_url, result))
    ELSE pdf_converted(st, _extract_events_from_text(result.sections, extraction_patterns,
                                                     pdf_url))
\* what extract_multiple_pdfs returns after the loop
multiple_pdfs_response(pdf_urls, all_events, processing_errors) ==
    _create_success_response(
        all_events,
        [extraction_method |-> "pdf_multiple",
         events_found |-> Len(all_events),
         pdfs_processed |-> Len(pdf_urls) - Len(processing_errors),
         pdfs_failed |-> Len(processing_errors),
         processing_errors |-> processing_errors])

sPdfA == <<"a",".","p","d","f">>
sPdfB == <<"b",".","p","d","f">>
PdfUrls == {Str(sPdfA), Str(sPdfB)}
PdfUrlLists == ListsUpTo(PdfUrls, MaxPdfs)
\* sections by what the patterns match in them: a title and a date, a date and a
\* place, an empty title; the longest documents open with sections that give no
\* event
PdfSections ==
    {[titulo |-> Str(<<"Y","o","g","a">>), fecha |-> Str(<<"1","/","7">>)],
     [fecha |-> Str(<<"2","/","7">>), lugar |-> Str(<<"S","u","r">>)],
     [titulo |-> Str(<<>>)]}
PdfSectionLists ==
    {<<>>} \cup {<<s>> : s \in PdfSections}
    \cup {[n \in 1..MaxSections |->
               IF n < MaxSections THEN [titulo |-> Str(<<>>)] ELSE s] :
           s \in PdfSections \ {[titulo |-> Str(<<>>)]}}
PdfContents == {Content(sections) : sections \in PdfSectionLists}
ConvertOutcomes == PdfContents \cup {Failure(kind) : kind \in FailureKinds}
ExtractionPatterns == {{"titulo", "fecha"}, {"titulo", "fecha", "lugar"}}
\* what chain.ainvoke comes to
AinvokeOutcomes == (JudgmentOutcomes \ {Raised}) \cup {Failure(kind) : kind \in FailureKinds}
JudgedEvents == {<<>>, <<[titulo |-> Str(<<"Y","o","g","a">>)]>>}

InitCalls ==
    /\ \/ /\ pc = "extracting"
          /\ args \in [pdf_urls : PdfUrlLists, extraction_patterns : ExtractionPatterns]
          /\ state = [i |-> 0, all_events |-> <<>>, processing_errors |-> <<>>]
       \/ /\ pc = "supervising"
          /\ args \in [events : JudgedEvents, errors : {<<>>}]
          /\ state = NoState
    /\ ret = NoValue
    /\ url = PyNone
    /\ tipo = PyNone
    /\ criteria = EmptyDict
    /\ fault = ""
    /\ visited = <<>>
    /\ caught = {}
    /\ judgment = NoValue
    /\ eventos = <<>>
    /\ session = NoSession
    /\ runs = <<>>

\* one turn of the loop of extract_multiple_pdfs: converter.convert is called once
ProcessPdf ==
    /\ pc = "extracting"
    /\ state.i < Len(args.pdf_urls)
    /\ \E result \in ConvertOutcomes :
          /\ state' = process_pdf(state, args.pdf_urls[state.i + 1], result,
                                  args.extraction_patterns)
          /\ visited' = Append(visited,
                               Attempt(state.i + 1, args.pdf_urls[state.i + 1], result))
    /\ UNCHANGED <<pc, url, tipo, criteria, fault, caught, judgment, args, ret,
                 eventos, session, runs>>

\* the loop is over: extract_multiple_pdfs returns
ReturnMultiplePdfs ==
    /\ pc = "extracting"
    /\ state.i = Len(args.pdf_urls)
    /\ ret' = multiple_pdfs_response(args.pdf_urls, state.all_events,
                                     state.processing_errors)
    /\ pc' = "extracted"
    /\ UNCHANGED <<url, tipo, criteria, state, fault, visited, caught, judgment, args,
                 eventos, session, runs>>

\* _llm_supervision: chain.ainvoke is called once, inside the try block
LlmSupervision ==
    /\ pc = "supervising"
    /\ \E response \in AinvokeOutcomes :
          /\ judgment' = response
          /\ visited' = Append(visited, Attempt(0, args.events, response))
          /\ ret' = _llm_supervision(IF IsFailure(response) THEN Raised ELSE response)
    /\ pc' = "supervised"
    /\ UNCHANGED <<url, tipo, criteria, state, fault, caught, args,
                 eventos, session, runs>>

NextCalls == ProcessPdf \/ ReturnMultiplePdfs \/ LlmSupervision

SpecCalls == InitCalls /\ [][NextCalls]_vars

(***************************************************************************)
(* ScrapingEngine.test_fuente (backend/scraping/engine.py): the pipeline   *)
(* is run on a configuration under test and its final state is turned into *)
(* a response. Every write to the database of this program goes through a  *)
(* session; test_fuente opens none.                                        *)
(***************************************************************************)
PreviewLen == 3

test_estado(decision) ==
    IF decision = "APPROVED" THEN "success"
    ELSE IF decision = "ERROR" THEN "error" ELSE "warning"
test_preview(decision, approved_events) ==
    IF decision = "ERROR" THEN <<>>
    ELSE SubSeq(approved_events, 1, Min(PreviewLen, Len(approved_events)))
test_errores(decision, supervision_reasoning) ==
    IF decision = "APPROVED" THEN <<>>
    ELSE IF decision = "ERROR" THEN <<[msg |-> "Error no especificado en pipeline_errors"]>>
    ELSE <<[msg |-> "Decision", decision |-> decision, reasoning |-> supervision_reasoning]>>
\* the response test_fuente builds from the final state of the pipeline
test_fuente_response(final_state) ==
    [estado |-> test_estado(final_state.supervision_decision),
     eventos_encontrados |-> Len(final_state.approved_events),
     preview_eventos |-> test_preview(final_state.supervision_decision,
                                      final_state.approved_events),
     errores |-> test_errores(final_state.supervision_decision,
                              final_state.supervision_reasoning),
     pipeline_decision |-> final_state.supervision_decision,
     decision_reasoning |-> final_state.supervision_reasoning,
     quality_score |-> final_state.validation_results.quality_score]
\* variant: the except block lets the exception go on to the caller
test_fuente_except_reraising(e) == Raised
\* the except block of test_fuente
test_fuente_except(e) ==
    [estado |-> "error", error |-> e, eventos_encontrados |-> 0, preview_eventos |-> <<>>,
     errores |-> <<[msg |-> e]>>, pipeline_decision |-> "CRITICAL_ERROR",
     decision_reasoning |-> [msg |-> "Pipeline execution failed with exception", e |-> e],
     quality_score |-> Ratio(0, 1)]

sHttpA == <<"h","t","t","p",":","/","/","a">>
\* configurations under test: with and without the keys test_fuente subscripts
ConfiguracionesTest ==
    {[url |-> u, tipo |-> tp] :
         u \in {Str(sHttpA), Str(<<>>), PyNone}, tp \in {Str(sHTML), Str(sPDF)}}
    \cup {[url |-> Str(sHttpA)], [tipo |-> Str(sHTML)], EmptyDict}
TestStores == {<<>>, <<OtherSourceRow>>}

InitTest ==
    /\ pc = "test_fuente"
    /\ args \in ConfiguracionesTest
    /\ url = Get(args, "url")
    /\ tipo = Get(args, "tipo")
    /\ criteria \in PipelineCriteria
    /\ eventos \in TestStores
    /\ state = NoState
    /\ fault = ""
    /\ visited = <<>>
    /\ caught = {}
    /\ judgment = NoValue
    /\ session = NoSession
    /\ runs = <<>>
    /\ ret = NoValue

\* the try block up to the call of execute_scraping_pipeline: the subscripts
\* configuracion_test["url"] and configuracion_test["tipo"] raise KeyError
TestFuenteCall ==
    /\ pc = "test_fuente"
    /\ IF {"url", "tipo"} \subseteq DOMAIN args
       THEN /\ pc' = "call"
            /\ UNCHANGED <<ret, caught>>
       ELSE /\ ret' = test_fuente_except("KeyError")
            /\ caught' = caught \cup {"test_fuente"}
            /\ pc' = "tested"
    /\ UNCHANGED <<url, tipo, criteria, state, fault, visited, judgment, args,
                 eventos, session, runs>>

\* execute_scraping_pipeline returned its final state
TestFuenteReturns ==
    /\ pc = "returned"
    /\ ret' = test_fuente_response(state)
    /\ pc' = "tested"
    /\ UNCHANGED <<url, tipo, criteria, state, fault, visited, caught, judgment, args,
                 eventos, session, runs>>

\* execute_scraping_pipeline raised
TestFuenteExcept ==
    /\ pc = "raised"
    /\ ret' = test_fuente_except(fault)
    /\ caught' = caught \cup {"test_fuente"}
    /\ pc' = "tested"
    /\ UNCHANGED <<url, tipo, criteria, state, fault, visited, judgment, args,
                 eventos, session, runs>>

NextTest ==
    \/ TestFuenteCall
    \/ Call
    \/ ScrapingNode
    \/ RouteAfterScraping
    \/ ProcessingNode
    \/ RouteAfterProcessing
    \/ SupervisionNode
    \/ ErrorHandlerNode
    \/ GraphReturn
    \/ GraphFault
    \/ TestFuenteReturns
    \/ TestFuenteExcept

SpecTest == InitTest /\ [][NextTest]_vars

(***************************************************************************)
(* Properties of the pipeline                                              *)
(***************************************************************************)
\* the call's arguments as the entry point requires them, read off the texts
AcceptedArgs ==
    /\ url.t = "str"
    /\ \/ (Len(url.s) >= Len(sHttp) /\ SubSeq(url.s, 1, Len(sHttp)) = sHttp)
       \/ (Len(url.s) >= Len(sHttps) /\ SubSeq(url.s, 1, Len(sHttps)) = sHttps)
    /\ tipo \in {Str(sHTML), Str(sPDF), Str(sIMAGE)}
\* graph.ainvoke returned: the run was not cut short by a fault of the graph
GraphCompleted == pc \in {"end", "returned"} /\ "pipeline" \notin caught
LastVisited == visited[Len(visited)]
\* the events of a list that pass the automatic filter of the configured criteria
ValidOf(events, c) ==
    SelectValid(events, c.required_fields, c.valid_categories, c.max_price)

C2_RouteAfterScraping ==
    /\ pc = "processing"
          => state.scraped_data # <<>> /\ Len(state.scraping_errors) <= 2
    /\ (pc = "error_handler" /\ visited = <<"scraping">>)
          => ~(state.scraped_data # <<>> /\ Len(state.scraping_errors) <= 2)
    /\ (InSeq("processing", visited) /\ "pipeline" \notin caught)
          => state.scraped_data # <<>>
C2_DataWithThreeErrors ==
    /\ pc = "error_handler"
    /\ visited = <<"scraping">>
    /\ state.scraped_data # <<>>
    /\ Len(state.scraping_errors) = 3

\* C3: after the processing stage the run goes on to supervision exactly when
\* processed_events is non-empty, however many processing_errors there are, and to
\* the error handler otherwise.
C3_RouteAfterProcessing ==
    /\ pc = "supervision" => state.processed_events # <<>>
    /\ (pc = "error_handler" /\ visited = <<"scraping", "processing">>)
          => state.processed_events = <<>>
    /\ (InSeq("supervision", visited) /\ "pipeline" \notin caught)
          => state.processed_events # <<>>
C3_SupervisionDespiteErrors ==
    /\ pc = "supervision"
    /\ Len(state.processing_errors) >= 2

\* C4: the error handler runs only right after the scraping or the processing
\* stage, never after supervision, and a run it handled ends with the decision
\* ERROR, no approved events, and a reasoning that gives the number of
\* scraping_errors plus processing_errors.
C4_ErrorHandlerOutcome ==
    /\ pc = "error_handler" => LastVisited \in {"scraping", "processing"}
    /\ InSeq("error_handler", visited) =>
          /\ visited \in {<<"scraping", "error_handler">>,
                          <<"scraping", "processing", "error_handler">>}
          /\ pc \in {"end", "returned"}
          /\ state.supervision_decision = "ERROR"
          /\ state.approved_events = <<>>
          /\ state.supervision_reasoning =
                [kind |-> "Pipeline failed with n errors",
                 n |-> Len(state.scraping_errors) + Len(state.processing_errors),
                 txt |-> ""]
C4_HandledAfterProcessing ==
    /\ pc = "returned"
    /\ visited = <<"scraping", "processing", "error_handler">>
    /\ state.scraping_errors # <<>>
    /\ state.processing_errors # <<>>

\* the except blocks that stand for a whole stage: the agent's own and the node's
\* (for scraping also the outer one of the output parser)
ScrapingStageHandlers == {"output_parse", "scraping_agent", "scraping_node"}
ProcessingStageHandlers == {"processing_agent", "processing_node"}
\* the except blocks inside a stage that deal with one step or one call only
ScrapingInnerHandlers == {"step_parse"}
ProcessingInnerHandlers == {"llm_validation"}
HasMessage(errors, msg) == \E i \in 1..Len(errors) : errors[i].msg = msg
ScrapingMessages ==
    {<<"output_parse", "Failed to parse intelligent agent output">>,
     <<"scraping_agent", "Intelligent scraping agent error">>,
     <<"scraping_node", "Scraping node error">>}
ProcessingMessages ==
    {<<"processing_agent", "Processing agent error">>,
     <<"processing_node", "Processing node error">>}

\* C5 (as amended): an exception that reaches a stage's own except block (the
\* scraping agent's, the output parser's outer one, the processing agent's outer
\* one, or the node's) is caught there, its message is in scraping_errors
\* (processing_errors), the stage's output list is empty and the run goes to the
\* error handler, never on to the next stage.
C5_StageFaultGoesToErrorHandler ==
    /\ (pc = "after_scraping" /\ caught \cap ScrapingStageHandlers # {})
          => /\ state.scraped_data = <<>>
             /\ \A h \in ScrapingMessages :
                   h[1] \in caught => HasMessage(state.scraping_errors, h[2])
    /\ pc = "processing" => caught \cap ScrapingStageHandlers = {}
    /\ (pc = "after_processing" /\ caught \cap ProcessingStageHandlers # {})
          => /\ state.processed_events = <<>>
             /\ \A h \in ProcessingMessages :
                   h[1] \in caught => HasMessage(state.processing_errors, h[2])
    /\ pc = "supervision" => caught \cap ProcessingStageHandlers = {}
C5_AgentFaultHandled ==
    /\ pc = "error_handler"
    /\ caught \cap ProcessingStageHandlers # {}
    /\ state.processed_events = <<>>
\* C5 as stated: every exception raised inside the scraping or the processing
\* stage, the ones a step or a call inside the stage deals with included, leaves
\* the stage's output list empty and sends the run to the error handler.
C5_AnyFaultEmptiesStageOutput ==
    /\ (pc = "after_scraping"
        /\ caught \cap (ScrapingStageHandlers \cup ScrapingInnerHandlers) # {})
          => state.scraped_data = <<>>
    /\ pc = "processing"
          => caught \cap (ScrapingStageHandlers \cup ScrapingInnerHandlers) = {}
    /\ (pc = "after_processing"
        /\ caught \cap (ProcessingStageHandlers \cup ProcessingInnerHandlers) # {})
          => state.processed_events = <<>>
    /\ pc = "supervision"
          => caught \cap (ProcessingStageHandlers \cup ProcessingInnerHandlers) = {}

\* C6: a call whose url is empty or lacks the http:// or https:// prefix, or whose
\* tipo is not HTML, PDF or IMAGE, raises ValueError before the run state exists:
\* no stage runs and no state is returned.
C6_InvalidArgsRaise ==
    (pc # "call" /\ ~AcceptedArgs) =>
        /\ pc = "raised"
        /\ fault \in {"Invalid URL provided", "Invalid tipo provided"}
        /\ state = NoState
        /\ visited = <<>>
C6_RaisedOnTipo ==
    /\ pc = "raised"
    /\ fault = "Invalid tipo provided"
    /\ state = NoState

\* C8: in the returned state approved_events is non-empty only under the decision
\* APPROVED; under APPROVED it is the list of processed events that pass the
\* automatic filter, and non-empty, whatever min_events is (0 included); under
\* REJECTED, MANUAL_REVIEW and ERROR it is empty.
C8_ApprovedEventsOnlyWhenApproved ==
    pc = "returned" =>
        /\ state.approved_events # <<>> => state.supervision_decision = "APPROVED"
        /\ state.supervision_decision = "APPROVED" =>
              /\ state.approved_events # <<>>
              /\ state.approved_events = ValidOf(state.processed_events, criteria)
C8_ApprovedSubset ==
    /\ pc = "returned"
    /\ state.supervision_decision = "APPROVED"
    /\ criteria.min_events = 0
    /\ Len(state.approved_events) < Len(state.processed_events)

\* the judgment call was made, and the supervision node has returned
JudgmentMade ==
    /\ GraphCompleted
    /\ LastVisited = "supervision"
    /\ judgment # NoValue
\* the call raised, or its answer has no decision text to upper-case
JudgmentFailed ==
    \/ judgment = Raised
    \/ ~IsDict(judgment)
    \/ ("decision" \in DOMAIN judgment /\ ~IsStr(judgment.decision))
\* the decision text of an answer (ERROR when the answer holds none)
JudgmentText ==
    IF "decision" \in DOMAIN judgment THEN judgment.decision.s ELSE sERROR
DegradedStatus ==
    IF Len(ValidOf(state.processed_events, criteria)) >= criteria.min_events
    THEN "MANUAL_REVIEW" ELSE "REJECTED"

C7_FusionTable ==
    pc = "fused" =>
        /\ ~args.auto_validation.meets_minimum => ret.status = "REJECTED"
        /\ (args.auto_validation.meets_minimum
            /\ args.llm_decision.decision = sAPPROVE
            /\ args.auto_validation.valid_count > 0) => ret.status = "APPROVED"
        /\ (args.auto_validation.meets_minimum
            /\ args.llm_decision.decision = sREJECT) => ret.status = "REJECTED"
        /\ (args.auto_validation.meets_minimum
            /\ args.llm_decision.decision \notin {sAPPROVE, sREJECT})
                => ret.status = "MANUAL_REVIEW"
        /\ (args.auto_validation.meets_minimum
            /\ args.llm_decision.decision = sAPPROVE
            /\ args.auto_validation.valid_count = 0) => ret.status = "MANUAL_REVIEW"
C7_RejectedDespiteApprove ==
    /\ pc = "fused"
    /\ ~args.auto_validation.meets_minimum
    /\ args.llm_decision.decision = sAPPROVE
    /\ args.auto_validation.valid_count > 0
    /\ ret.status = "REJECTED"

\* the configured criteria of the call under check, with the defaults of the code
ArgRequired == GetDefault(args.criteria, "required_fields", <<>>)
ArgCategories == GetDefault(args.criteria, "valid_categories", <<>>)
ArgMaxPrice == GetDefault(args.criteria, "max_price", 15)
ArgMinEvents == GetDefault(args.criteria, "min_events", 1)
\* every required field of the event is there and non-empty
HasRequired(event) ==
    \A i \in 1..Len(ArgRequired) :
        /\ ArgRequired[i] \in DOMAIN event
        /\ event[ArgRequired[i]] \notin {PyNone, Str(<<>>)}
InAllowList(event) ==
    /\ "categoria" \in DOMAIN event
    /\ \E i \in 1..Len(ArgCategories) : event.categoria = Str(ArgCategories[i])
\* the number a price text stands for once "€" is dropped and Gratis reads 0
PriceNumber(text) == float(replace(replace(text, sEuro, <<>>), sGratis, sZero))
\* the price is a text that parses to a number above the ceiling
TextPriceAbove(event) ==
    /\ "precio" \in DOMAIN event
    /\ event.precio.t = "str"
    /\ PriceNumber(event.precio.s).kind \in {"finite", "inf"}
    /\ GreaterThan(PriceNumber(event.precio.s), ArgMaxPrice)
Filter(events, Keep(_)) == SelectSeq(events, Keep)
EventsOf(rejections) == [i \in 1..Len(rejections) |-> rejections[i].event]
\* what the result must be when valid means Valid(event)
Classified(Valid(_)) ==
    /\ ret.valid_events = Filter(args.events, Valid)
    /\ EventsOf(ret.invalid_events) = Filter(args.events, LAMBDA e : ~Valid(e))
    /\ \A i \in 1..Len(ret.invalid_events) : ret.invalid_events[i].reasons # <<>>
    /\ ret.valid_count = Len(ret.valid_events)
    /\ ret.invalid_count = Len(ret.invalid_events)
    /\ ret.valid_count + ret.invalid_count = Len(args.events)
    /\ ret.meets_minimum = (ret.valid_count >= ArgMinEvents)
AllDicts == \A i \in 1..Len(args.events) : "t" \notin DOMAIN args.events[i]
ValidAsAmended(event) ==
    /\ HasRequired(event)
    /\ ArgCategories = <<>> \/ InAllowList(event)
    /\ ~TextPriceAbove(event)
ValidAsStated(event) ==
    /\ HasRequired(event)
    /\ InAllowList(event)
    /\ ~TextPriceAbove(event)

\* C10 (as amended): _automatic_validation takes an event as valid exactly when
\* every configured required field is non-empty, the allow-list is empty (or not
\* configured) or holds the event's category, and the price is not a text that
\* parses, with "€" dropped and Gratis read as 0, to a number above the ceiling
\* (any other price passes); every event is in exactly one of valid_events and
\* invalid_events, in order, every invalid one with at least one reason, and
\* meets_minimum is valid_count >= min_events.
C10_AutomaticValidation ==
    (pc = "validated" /\ AllDicts) => (ret # Raised /\ Classified(ValidAsAmended))
C10_EmptyAllowListPasses ==
    /\ pc = "validated"
    /\ AllDicts
    /\ ArgCategories = <<>>
    /\ ret.valid_count > 0
    /\ ret.invalid_count > 0
    /\ \E i \in 1..Len(ret.valid_events) : ~InAllowList(ret.valid_events[i])
\* C10 as stated: valid exactly when the required fields are non-empty, the
\* category is in the configured allow-list, whatever that list is, and the
\* price does not parse to a number above the ceiling.
C10_CategoryAlwaysChecked ==
    (pc = "validated" /\ AllDicts) => (ret # Raised /\ Classified(ValidAsStated))

\* ---- normalize_event on its own (SpecNormalize) ----
Returned(e) == e # PyNone
BothReturned == pc = "normalized" /\ Returned(ret.first) /\ Returned(ret.second)
\* the normalized (title, start date, location) of a returned event
TripleOf(e) == <<Get(e, "titulo"), Get(e, "fecha_inicio"), Get(e, "ubicacion")>>
\* the text the fingerprint is the SHA-256 digest of: title, ISO date and location
KeyText(e) ==
    e.titulo.s \o isoformat(e.fecha_inicio)
    \o (IF "ubicacion" \in DOMAIN e THEN e.ubicacion.s ELSE <<>>)
HashOfNormalized(e) == e.hash_contenido = Sha256(KeyText(e))

\* C13: two raw records whose normalized title, start date and location are equal
\* get the same hash_contenido, and the hash of every returned event is the digest
\* of its normalized title, start date and location and of nothing else.
C13_SameTripleSameHash ==
    /\ BothReturned /\ TripleOf(ret.first) = TripleOf(ret.second)
        => ret.first.hash_contenido = ret.second.hash_contenido
    /\ pc = "normalized" /\ Returned(ret.first) => HashOfNormalized(ret.first)
    /\ pc = "normalized" /\ Returned(ret.second) => HashOfNormalized(ret.second)
C13_DifferentRawSameHash ==
    /\ BothReturned
    /\ Get(args.first, "titulo") # Get(args.second, "titulo")
    /\ Get(args.first, "fecha_inicio") # Get(args.second, "fecha_inicio")
    /\ Get(args.first, "ubicacion") # Get(args.second, "ubicacion")
    /\ ret.first.precio # ret.second.precio
    /\ TripleOf(ret.first) = TripleOf(ret.second)
    /\ ret.first.hash_contenido = ret.second.hash_contenido

IsValidCategory(v) == v.t = "str" /\ \E i \in 1..Len(CATEGORIAS_VALIDAS) : v.s = CATEGORIAS_VALIDAS[i]
\* the category the record brings to _normalize_category under the mapping
GivenCategory(raw, mapeo_campos) ==
    IF mapeo_campos = SSReyesMapeo THEN Get(raw, "categoria") ELSE PyNone
\* the text the keywords are looked up in: the normalized title and the description
\* as it arrives, lower-cased
InferenceText(e, raw, mapeo_campos) ==
    lower(e.titulo.s \o <<" ">>
          \o (IF mapeo_campos = SSReyesMapeo /\ "descripcion" \in DOMAIN raw
              THEN raw.descripcion.s ELSE <<>>))
KeywordsOf(categoria) ==
    LET i == CHOOSE k \in 1..Len(CATEGORIA_KEYWORDS) : CATEGORIA_KEYWORDS[k][1] = categoria
    IN {CATEGORIA_KEYWORDS[i][2][j] : j \in 1..Len(CATEGORIA_KEYWORDS[i][2])}
HasKeywordOf(texto, categoria) == \E kw \in KeywordsOf(categoria) : contains(texto, kw)
AnyKeyword(texto) ==
    \E k \in 1..Len(CATEGORIA_KEYWORDS) : HasKeywordOf(texto, CATEGORIA_KEYWORDS[k][1])
CategoryAsClaimed(e, raw, mapeo_campos) ==
    /\ IsValidCategory(e.categoria)
    /\ IsValidCategory(GivenCategory(raw, mapeo_campos))
        => e.categoria = GivenCategory(raw, mapeo_campos)
    /\ ~IsValidCategory(GivenCategory(raw, mapeo_campos))
        => IF AnyKeyword(InferenceText(e, raw, mapeo_campos))
           THEN HasKeywordOf(InferenceText(e, raw, mapeo_campos), e.categoria.s)
           ELSE e.categoria = Str(sOcio)

\* C14: every event normalize_event returns has a category of CATEGORIAS_VALIDAS:
\* the given one when it is valid, otherwise one a keyword of which occurs in the
\* event's text, otherwise "Ocio y Social".
C14_CategoryInFixedSet ==
    /\ pc = "normalized" /\ Returned(ret.first)
        => CategoryAsClaimed(ret.first, args.first, args.mapeo_campos)
    /\ pc = "normalized" /\ Returned(ret.second)
        => CategoryAsClaimed(ret.second, args.second, args.mapeo_campos)
C14_InvalidCategoryInferred ==
    /\ pc = "normalized" /\ Returned(ret.first)
    /\ args.mapeo_campos = SSReyesMapeo
    /\ Get(args.first, "categoria") = Str(<<"O","t","r","a">>)
    /\ ret.first.categoria = Str(sFormacion)
    /\ Returned(ret.second)
    /\ Get(args.second, "categoria") = PyNone
    /\ ret.second.categoria = Str(sOcio)

\* the raw title is missing, is no text, or normalizes to fewer than 3 characters
TitleRejected(raw) ==
    \/ ~Truthy(Get(raw, "titulo"))
    \/ raw.titulo.t # "str"
    \/ Len(_normalize_title(raw.titulo.s)) < 3
\* the raw start date is missing or does not parse
DateRejected(raw) ==
    \/ ~Truthy(Get(raw, "fecha_inicio"))
    \/ _normalize_date(raw.fecha_inicio) = PyNone
CompleteRecord(e) ==
    /\ {"titulo", "fecha_inicio", "categoria", "precio", "hash_contenido"} \subseteq DOMAIN e
    /\ e.titulo.t = "str" /\ Len(e.titulo.s) >= 3 /\ Len(e.titulo.s) <= 200
    /\ e.fecha_inicio.t = "date"
    /\ ValidDate(e.fecha_inicio.y, e.fecha_inicio.m, e.fecha_inicio.d)
    /\ IsValidCategory(e.categoria)
    /\ e.hash_contenido.t = "sha256"
RejectsAsClaimed(e, raw) ==
    /\ TitleRejected(raw) \/ DateRejected(raw) => e = PyNone
    /\ Returned(e) => CompleteRecord(e)

\* C15: normalize_event returns None when the normalized title is missing or
\* shorter than 3 characters, when the start date is missing or does not parse, or
\* when normalization raises; every record it returns has a title of 3 to 200
\* characters, a parsed start date, a valid category and a SHA-256 hex digest (64
\* hexadecimal characters) as hash_contenido.
C15_RejectsOrCompletes ==
    pc = "normalized"
        => RejectsAsClaimed(ret.first, args.first) /\ RejectsAsClaimed(ret.second, args.second)
C15_BadDateRejected ==
    /\ pc = "normalized"
    /\ ~TitleRejected(args.first)
    /\ Truthy(Get(args.first, "fecha_inicio"))
    /\ DateRejected(args.first)
    /\ ret.first = PyNone
    /\ Returned(ret.second)

\* ---- the shape of the returned state (Spec) ----
ValidationKeys == {"quality_score", "total_extracted", "total_validated", "approval_rate"}
IsList(v) == DOMAIN v = 1..Len(v)
HasSupervised == \E i \in 1..Len(visited) : visited[i] = "supervision"

\* C18: the state every run returns, on every path, has validation_results with
\* exactly its four keys, and scraping_errors, processing_errors, approved_events
\* and rejected_events are lists, the last two empty unless supervision filled them.
C18_ReturnedStateComplete ==
    pc = "returned" =>
        /\ DOMAIN state.validation_results = ValidationKeys
        /\ IsList(state.scraping_errors) /\ IsList(state.processing_errors)
        /\ IsList(state.approved_events) /\ IsList(state.rejected_events)
        /\ ~HasSupervised \/ "pipeline" \in caught
            => state.approved_events = <<>> /\ state.rejected_events = <<>>
C18_CompleteAfterGraphFault ==
    /\ pc = "returned"
    /\ "pipeline" \in caught
    /\ \E i \in 1..Len(visited) : visited[i] = "processing"
    /\ state.validation_results = DefaultValidationResults
    /\ state.processing_errors # <<>>

\* ---- select_top_content on its own (SpecSelect) ----
SelMaxCount == GetDefault(args.selection_criteria, "max_count", 3)
SelMinScore == GetDefault(args.selection_criteria, "min_score", 5000)
SelRequireDates == GetDefault(args.selection_criteria, "require_dates", FALSE)
ScoreNum(item) == IF "final_score" \in DOMAIN item THEN item.final_score.n ELSE 0
\* a call the selection goes through for: some items, every score a number
Selectable ==
    /\ pc = "selected"
    /\ args.ranked_items # <<>>
    /\ \A i \in 1..Len(args.ranked_items) :
          "final_score" \in DOMAIN args.ranked_items[i]
              => args.ranked_items[i].final_score.t = "num"
MeetsScore(item) == ScoreNum(item) >= SelMinScore
HasDates(item) == "extracted_dates" \in DOMAIN item /\ item.extracted_dates # <<>>
MeetsScoreAndDates(item) == MeetsScore(item) /\ (SelRequireDates => HasDates(item))
\* the positions taken when the first max_count eligible items are
Taken(Eligible(_)) ==
    {i \in 1..Len(args.ranked_items) :
        /\ Eligible(args.ranked_items[i])
        /\ Cardinality({j \in 1..(i - 1) : Eligible(args.ranked_items[j])}) < SelMaxCount}
WithoutReasons(item) == [k \in (DOMAIN item) \ {"rejection_reasons"} |-> item[k]]
SelectedAre(Eligible(_)) ==
    /\ ret.success
    /\ ret.data = Pick(args.ranked_items, Taken(Eligible), 1)
    /\ [i \in 1..Len(ret.metadata.rejected_items) |->
            WithoutReasons(ret.metadata.rejected_items[i])]
         = Pick(args.ranked_items, (1..Len(args.ranked_items)) \ Taken(Eligible), 1)
    /\ \A i \in 1..Len(ret.metadata.rejected_items) :
          /\ "rejection_reasons" \in DOMAIN ret.metadata.rejected_items[i]
          /\ ret.metadata.rejected_items[i].rejection_reasons # <<>>
    /\ Len(ret.data) + Len(ret.metadata.rejected_items) = Len(args.ranked_items)
    /\ Len(ret.data) <= SelMaxCount

\* C19 (as amended): for a non-empty list of items with numeric scores and a
\* max_count of 0 or more, select_top_content selects, in order, exactly the first
\* max_count items whose final_score meets min_score and which, when require_dates
\* is set, have extracted dates; every other item is in rejected_items with at least
\* one reason, selected plus rejected is the input, at most max_count are selected.
C19_SelectsFirstEligible == Selectable => SelectedAre(MeetsScoreAndDates)
C19_DatelessItemRejected ==
    /\ Selectable
    /\ SelRequireDates
    /\ SelMaxCount >= 1
    /\ Len(ret.data) = SelMaxCount
    /\ \E i \in 1..Len(args.ranked_items) :
          /\ MeetsScore(args.ranked_items[i])
          /\ ~HasDates(args.ranked_items[i])
          /\ Cardinality({j \in 1..(i - 1) : MeetsScore(args.ranked_items[j])}) < SelMaxCount
\* C19 as stated: the selected items are the first max_count items whose
\* final_score meets min_score, whatever else the criteria ask for.
C19_ScoreAndCapOnly == Selectable => SelectedAre(MeetsScore)

\* the rejected entry of item carries the reason naming its score and the minimum
RejectedForScore(item) ==
    \E i \in 1..Len(ret.metadata.rejected_items) :
        /\ WithoutReasons(ret.metadata.rejected_items[i]) = item
        /\ \E k \in 1..Len(ret.metadata.rejected_items[i].rejection_reasons) :
              ret.metadata.rejected_items[i].rejection_reasons[k]
                = [reason |-> "Score below minimum",
                   score |-> (ScoreNum(item) + 5) \div 10, minimum |-> SelMinScore]
\* how many items before position i meet the minimum score
MeetingBefore(i) == Cardinality({j \in 1..(i - 1) : MeetsScore(args.ranked_items[j])})

\* C20: the threshold is inclusive: an item whose final_score equals min_score is
\* selected when dates are not required and fewer than max_count items before it
\* were selected; an item with a smaller final_score is rejected with a reason
\* naming its score and the minimum.
C20_ThresholdInclusive ==
    Selectable =>
        \A i \in 1..Len(args.ranked_items) :
            /\ ( /\ ScoreNum(args.ranked_items[i]) = SelMinScore
                 /\ ~SelRequireDates
                 /\ MeetingBefore(i) < SelMaxCount )
                => /\ Len(ret.data) > MeetingBefore(i)
                   /\ ret.data[MeetingBefore(i) + 1] = args.ranked_items[i]
            /\ ScoreNum(args.ranked_items[i]) < SelMinScore
                => RejectedForScore(args.ranked_items[i])
C20_EqualSelectedBelowRejected ==
    /\ Selectable
    /\ ~SelRequireDates
    /\ SelMinScore = 7000
    /\ \E i \in 1..Len(ret.data) : ScoreNum(ret.data[i]) = SelMinScore
    /\ \E i \in 1..Len(args.ranked_items) :
          /\ ScoreNum(args.ranked_items[i]) = 5000
          /\ RejectedForScore(args.ranked_items[i])

\* ---- event store: persistence claims ----
EngineCall == args.caller = "engine"
SSReyesCall == args.caller = "ssreyes"
RunApproved ==
    /\ EngineCall
    /\ args.final_state # Raised
    /\ args.final_state.supervision_decision = "APPROVED"
\* the rows of a run's resulting table that its starting table did not hold
WrittenRows(run) ==
    {run.after[k] : k \in {j \in 1..Len(run.after) :
                              j > Len(run.before) \/ run.after[j] # run.before[j]}}
FromApproved(row) ==
    \E k \in 1..Len(args.final_state.approved_events) :
        row.datos_raw = Dict(args.final_state.approved_events[k])

\* C16: _procesar_fuente opens a write session only for an APPROVED run and hands
\* it the run's approved_events: every row a run adds or changes carries one of the
\* approved events; for any other decision (or a pipeline that raised) no session
\* is opened and the table stays as it was before the first run.
C16_WritesOnlyApproved ==
    EngineCall =>
        /\ session # NoSession => RunApproved /\ session.batch = args.final_state.approved_events
        /\ \A k \in 1..Len(runs) :
              IF RunApproved
              THEN \A row \in WrittenRows(runs[k]) : FromApproved(row)
              ELSE runs[k].after = runs[k].before /\ eventos = runs[1].before
\* an APPROVED run that left a processed event out has committed new rows
C16_ApprovedSubsetWritten ==
    /\ RunApproved
    /\ args.final_state.approved_events # args.final_state.processed_events
    /\ \E k \in 1..Len(runs) :
          runs[k].outcome = "committed" /\ WrittenRows(runs[k]) # {}
\* a REJECTED run has ended with the table holding what it held
C16_RejectedLeavesStore ==
    /\ EngineCall
    /\ args.final_state # Raised
    /\ args.final_state.supervision_decision = "REJECTED"
    /\ runs # <<>>
    /\ eventos # <<>>

\* C17: the table changes only at the commit that follows the last event of the
\* batch: while a session is open the table is what it was when the session was
\* opened, a batch that failed leaves the table as it was, and a committed batch
\* has had every event handled.
C17_AllOrNothing ==
    /\ session # NoSession => eventos = session.before
    /\ \A k \in 1..Len(runs) :
          /\ runs[k].outcome = "failed" => runs[k].after = runs[k].before
          /\ runs[k].outcome = "committed" =>
                /\ runs[k].handled = Len(runs[k].batch)
                /\ runs[k].saved_count + runs[k].duplicate_count = Len(runs[k].batch)
                /\ Len(runs[k].after) = Len(runs[k].before) + runs[k].saved_count
\* a batch failed after one of its events had been handled
C17_FailedAfterHandling ==
    \E k \in 1..Len(runs) :
        /\ runs[k].outcome = "failed"
        /\ runs[k].handled >= 1
        /\ runs[k].handled < Len(runs[k].batch)

\* the event is matched by fingerprint to a row of the table the run started with
MatchedByFingerprint(run, evento_data) ==
    IF EngineCall
    THEN existentes(run.before, evento_data, args.fuente_id) # {}
    ELSE found_by_hash(run.before, Get(evento_data, "hash_contenido"))
MatchedByTriple(run, evento_data) ==
    SSReyesCall /\ found_by_content(run.before, evento_data)
\* run k follows a committed run j over the same content
Rerun(j, k) == j < k /\ k <= Len(runs) /\ runs[j].outcome = "committed"

SameTriple(row, evento_data) ==
    /\ row.titulo = Get(evento_data, "titulo")
    /\ row.fecha_inicio = Get(evento_data, "fecha_inicio")
    /\ row.ubicacion = Get(evento_data, "ubicacion")
SameFingerprint(row, evento_data) ==
    /\ "hash_contenido" \in DOMAIN evento_data
    /\ row.hash_contenido = evento_data["hash_contenido"]
\* the events of the batch that neither tier finds among the stored records
BothMiss(run) ==
    {i \in 1..Len(run.batch) :
        \A k \in 1..Len(run.before) :
            /\ ~SameFingerprint(run.before[k], run.batch[i])
            /\ ~SameTriple(run.before[k], run.batch[i])}

\* C12 as stated: of a batch that save_eventos_to_db_deduped committed, exactly
\* the events with neither a stored record of the same fingerprint nor one of the
\* same (title, start date, location) were inserted, every other event was counted
\* as duplicate, and guardados + duplicados is the number of input events.
C12_TwoTierGate ==
    SSReyesCall =>
        \A k \in 1..Len(runs) :
            runs[k].outcome = "committed" =>
                /\ runs[k].saved_count = Cardinality(BothMiss(runs[k]))
                /\ runs[k].duplicate_count = Len(runs[k].batch) - Cardinality(BothMiss(runs[k]))
                /\ runs[k].saved_count + runs[k].duplicate_count = Len(runs[k].batch)

\* ---- rank_content_by_strategy ----
RankedData == ret.data
\* the input item an output item was copied from
SourceOf(item) == [k \in DOMAIN item \ {"final_score", "ranking_strategy",
                                         "ranking_explanation", "final_rank"} |-> item[k]]
FinalScore(p) == RankedData[p]["final_score"].n
Rearrangements(n) == {f \in [1..n -> 1..n] : \A i, j \in 1..n : f[i] = f[j] => i = j}
\* output p is input f[p], and inputs of the same final score keep their order
OrderKeeping(f) ==
    /\ \A p \in 1..Len(RankedData) : SourceOf(RankedData[p]) = args.content_items[f[p]]
    /\ \A p, q \in 1..Len(RankedData) :
          p < q /\ FinalScore(p) = FinalScore(q) => f[p] < f[q]
    /\ \A p \in 1..Len(RankedData) :
          RankedData[p]["final_score"]
              = final_score_of(args.content_items[f[p]], f[p] - 1,
                               Len(args.content_items), args.ranking_strategy,
                               weights_used(args.weights))

\* C21: a ranking that goes through returns the input items, each once, ordered by
\* non-increasing final_score, with final_rank 1..n in that order, items of equal
\* final_score being in their input order.
C21_RankedStably ==
    pc = "ranked" /\ ret.success =>
        /\ Len(RankedData) = Len(args.content_items)
        /\ \A p \in 1..Len(RankedData) : RankedData[p]["final_rank"] = p
        /\ \A p, q \in 1..Len(RankedData) : p < q => FinalScore(p) >= FinalScore(q)
        /\ \E f \in Rearrangements(Len(RankedData)) : OrderKeeping(f)
\* a ranking moved an item ahead of two items of equal score, which kept their order
C21_TieKeptBehindMovedItem ==
    /\ pc = "ranked"
    /\ ret.success
    /\ Len(RankedData) = 3
    /\ SourceOf(RankedData[1]) = args.content_items[3]
    /\ FinalScore(2) = FinalScore(3)
    /\ FinalScore(1) > FinalScore(2)
    /\ args.content_items[1] # args.content_items[2]

\* ---- prioritize_by_temporal_relevance ----
Prioritized == ret.response
HasItemDated(extracted_dates) ==
    \E i \in 1..Len(args.items_with_dates) :
        /\ "extracted_dates" \in DOMAIN args.items_with_dates[i]
        /\ args.items_with_dates[i].extracted_dates = extracted_dates

\* C22 as stated: under strategy latest with reference date 2025-07-15, a call
\* given an item dated 'julio y agosto 2025' and an item dated 'julio 2025' returns
\* its ranking with a strictly higher relevance score on the first than on the
\* second.
C22_RangeOutscoresSingleMonth ==
    /\ pc = "prioritized"
    /\ args.strategy = "latest"
    /\ ret.reference_date = Date(2025, 7, 15)
    /\ HasItemDated(<<JulioAgosto2025>>)
    /\ HasItemDated(<<Julio2025>>)
    => /\ Prioritized.success
       /\ \A p, q \in 1..Len(Prioritized.data) :
             /\ Prioritized.data[p].extracted_dates = <<JulioAgosto2025>>
             /\ Prioritized.data[q].extracted_dates = <<Julio2025>>
             => Prioritized.data[p]["relevance_score"].n
                    > Prioritized.data[q]["relevance_score"].n

\* the dates of the highest confidence among those of an item
MostConfident(extracted_dates) ==
    {extracted_dates[i] : i \in {k \in 1..Len(extracted_dates) :
        \A j \in 1..Len(extracted_dates) :
            ConfidenceOf(extracted_dates[j]) <= ConfidenceOf(extracted_dates[k])}}

\* C23 as stated: in a returned ranking, the relevance score of an item with
\* dates is the score, under the strategy, of a date of its highest confidence.
C23_ScoreOfMostConfidentDate ==
    pc = "prioritized" /\ Prioritized.success =>
        \A p \in 1..Len(Prioritized.data) :
            Prioritized.data[p].extracted_dates # <<>> =>
                \E best \in MostConfident(Prioritized.data[p].extracted_dates) :
                    Prioritized.data[p]["relevance_score"]
                        = _calculate_relevance_score(<<best>>, args.strategy,
                                                     ret.reference_date)

\* every item of the call has its extracted_dates list
AllItemsDated ==
    \A i \in 1..Len(args.items_with_dates) :
        "extracted_dates" \in DOMAIN args.items_with_dates[i]

\* C37 as stated: a call on a readable reference date whose items all have an
\* extracted_dates list, month-range dates included, returns a success response
\* in which every input item is ranked with a relevance score between 0 and 1.
C37_EveryDatedItemRanked ==
    pc = "prioritized" /\ ret.reference_date # Raised /\ AllItemsDated =>
        /\ Prioritized.success
        /\ Len(Prioritized.data) = Len(args.items_with_dates)
        /\ \A p \in 1..Len(Prioritized.data) :
              /\ "rank" \in DOMAIN Prioritized.data[p]
              /\ Prioritized.data[p]["relevance_score"].n \in 0..100

\* ---- detect_temporal_patterns ----
HasMonthName(item) ==
    \E k \in 1..Len(spanish_months) : contains(lower(item), spanish_months[k])
WithMonthName(content_items) ==
    Cardinality({i \in 1..Len(content_items) : HasMonthName(content_items[i])})
WithYearToken(content_items) ==
    Cardinality({i \in 1..Len(content_items) : years_in(content_items[i]) # {}})
DistinctYears(content_items) ==
    Cardinality(UNION {years_in(content_items[i]) : i \in 1..Len(content_items)})
MonthlyClaimed(with_month, total) == 2 * with_month > total
YearlyClaimed(with_year, years, total) == 10 * with_year > 3 * total /\ years > 1
DominantClaimed(with_month, with_year, years, total) ==
    IF MonthlyClaimed(with_month, total) /\ with_month > with_year THEN "monthly_series"
    ELSE IF YearlyClaimed(with_year, years, total) THEN "yearly_series" ELSE "none"
ClassifiedAsClaimed(data, with_month, with_year, years, total) ==
    /\ data.monthly_pattern.detected = MonthlyClaimed(with_month, total)
    /\ data.yearly_pattern.detected = YearlyClaimed(with_year, years, total)
    /\ data.dominant_pattern = DominantClaimed(with_month, with_year, years, total)

\* C24: for a non-empty list of labels the detection succeeds, reports monthly
\* detected exactly when more than half of the items hold a month name, yearly
\* detected exactly when more than 30% of the items hold a 20xx year token and two
\* distinct years occur, and the dominant pattern is monthly_series when monthly
\* is detected with a confidence above the yearly one, else yearly_series when
\* yearly is detected, else none; the result is that classification only.
C24_PatternClassification ==
    pc = "detected" /\ args.content_items # <<>> =>
        /\ ret.success
        /\ ClassifiedAsClaimed(ret.data, WithMonthName(args.content_items),
                               WithYearToken(args.content_items),
                               DistinctYears(args.content_items),
                               Len(args.content_items))
        /\ DOMAIN ret.data = {"monthly_pattern", "yearly_pattern", "dominant_pattern",
                              "has_temporal_organization", "recommendations"}
\* exactly half of the items hold a month name: monthly is not detected, and the
\* years decide
C24_HalfIsNotEnough ==
    /\ pc = "detected"
    /\ Len(args.content_items) = 4
    /\ ret.data.monthly_pattern.monthly_items = 2
    /\ ~ret.data.monthly_pattern.detected
    /\ ret.data.dominant_pattern = "yearly_series"

\* ---- _normalize_price ----
ClaimedFreeWords ==
    {<<"g","r","a","t","i","s">>, <<"g","r","a","t","u","i","t","o">>,
     <<"l","i","b","r","e">>, <<"s","i","n"," ","c","o","s","t","e">>,
     <<"f","r","e","e">>}
HasFreeWord(text) == \E word \in ClaimedFreeWords : contains(lower(text), word)
HasDigit(text) == \E i \in 1..Len(text) : IsDigit(text[i])
\* the first numeric token, comma turned into dot, followed by the euro sign
PricedNumber(text) == replace(first_number(text), <<",">>, <<".">>) \o <<"€">>
TooLong(text) == Len(text) >= 20
\* the three rules of the claim, in their order
PriceAsRuled(text) ==
    IF HasFreeWord(text) THEN <<"G","r","a","t","i","s">>
    ELSE IF HasDigit(text) THEN PricedNumber(text)
    ELSE IF TooLong(text) THEN <<"C","o","n","s","u","l","t","a","r"," ","p","r","e","c","i","o">>
    ELSE text
AConsultar == <<"a"," ","c","o","n","s","u","l","t","a","r">>
EntradaLibre == <<"E","n","t","r","a","d","a"," ","l","i","b","r","e">>
PriceGiven == pc = "priced" /\ args.precio.t = "str"

\* C25 (amended): every non-empty price text is mapped by the three rules in their
\* order (free word, else first number with dot and euro sign, else replaced when
\* of 20 characters or more and passed through when shorter); an empty text gives
\* Gratis; Entrada libre gives Gratis and the short text a consultar is passed
\* through.
C25_PriceRules ==
    PriceGiven =>
        /\ args.precio.s # <<>> => ret = Str(PriceAsRuled(args.precio.s))
        /\ args.precio.s = <<>> => ret = Str(<<"G","r","a","t","i","s">>)
        /\ args.precio.s = EntradaLibre => ret = Str(<<"G","r","a","t","i","s">>)
        /\ args.precio.s = AConsultar => ret = Str(AConsultar)
\* C25 as stated: every price text is mapped by the three rules in their order,
\* Entrada libre gives Gratis and a consultar gives Consultar precio.
C25_PriceRulesAsStated ==
    PriceGiven =>
        /\ ret = Str(PriceAsRuled(args.precio.s))
        /\ args.precio.s = EntradaLibre => ret = Str(<<"G","r","a","t","i","s">>)
        /\ args.precio.s = AConsultar =>
              ret = Str(<<"C","o","n","s","u","l","t","a","r"," ","p","r","e","c","i","o">>)
\* the short text a consultar has come back as it was
C25_ShortTextPassedThrough ==
    /\ PriceGiven
    /\ args.precio.s = AConsultar
    /\ ret = args.precio
\* a free word has won over a number in the same text
C25_FreeWordBeforeNumber ==
    /\ PriceGiven
    /\ HasFreeWord(args.precio.s)
    /\ HasDigit(args.precio.s)
    /\ ret = Str(<<"G","r","a","t","i","s">>)

\* ---- _apply_field_mapping ----
\* the destination path the mapping gives a source field (<<>>: not mapped)
DestinationOf(mapeo_campos, campo_origen) ==
    IF campo_origen \in MappedKeys(mapeo_campos)
    THEN mapeo_campos[CHOOSE i \in 1..Len(mapeo_campos) :
                          mapeo_campos[i][1] = campo_origen][2]
    ELSE <<>>
\* the value is in the nested datos_extra map under the key
InExtra(evento_mapeado, key, valor) ==
    /\ "datos_extra" \in DOMAIN evento_mapeado
    /\ evento_mapeado["datos_extra"].t = "dict"
    /\ key \in DOMAIN evento_mapeado["datos_extra"].d
    /\ evento_mapeado["datos_extra"].d[key] = valor
\* where the claim has the field: under its destination, a dotted one inside
\* datos_extra, or, unmapped, under its own key inside datos_extra
FieldKept(evento_mapeado, campo_origen, parts, valor) ==
    IF parts = <<>> THEN InExtra(evento_mapeado, campo_origen, valor)
    ELSE IF Len(parts) > 1 THEN InExtra(evento_mapeado, parts[Len(parts)], valor)
    ELSE parts[1] \in DOMAIN evento_mapeado /\ evento_mapeado[parts[1]] = valor

\* C26 as stated: every raw field with a non-empty value is in the result of
\* _apply_field_mapping, under its mapped destination (a dotted destination inside
\* datos_extra) or, when the mapping does not name it, under its own key inside
\* datos_extra.
C26_NoFieldLost ==
    pc = "mapped" =>
        /\ ret # Raised
        /\ \A campo_origen \in DOMAIN args.evento_raw :
              Truthy(args.evento_raw[campo_origen]) =>
                  FieldKept(ret, campo_origen,
                            DestinationOf(args.mapeo_campos, campo_origen),
                            args.evento_raw[campo_origen])

\* ---- the deduplication gate and records without fingerprint ----
\* row k of the table the run started with has no fingerprint and is the record the
\* title/date/location lookup finds for the event, the fingerprint lookup finding
\* none
LegacyMatch(run, k, evento_data) ==
    /\ run.before[k].hash_contenido = PyNone
    /\ ~found_by_hash(run.before, Get(evento_data, "hash_contenido"))
    /\ {"titulo", "fecha_inicio"} \subseteq DOMAIN evento_data
    /\ found_by_content(<<run.before[k]>>, evento_data)

\* C27 as stated: after a save that save_eventos_to_db_deduped committed, a stored
\* record without fingerprint that the title/date/location lookup matched to an
\* incoming event carries that event's fingerprint.
C27_FingerprintBackfilled ==
    SSReyesCall =>
        \A r \in 1..Len(runs) :
            runs[r].outcome = "committed" =>
                \A i \in 1..Len(runs[r].batch), k \in 1..Len(runs[r].before) :
                    LegacyMatch(runs[r], k, runs[r].batch[i]) =>
                        runs[r].after[k].hash_contenido
                            = Get(runs[r].batch[i], "hash_contenido")

\* ---- the calls that leave the process ----
\* the attempts made of one call, as positions in the history
AttemptsOf(call) == {k \in 1..Len(visited) : visited[k].call = call}
CallsMade == {visited[k].call : k \in 1..Len(visited)}
FirstOutcome(call) ==
    visited[CHOOSE k \in AttemptsOf(call) : \A j \in AttemptsOf(call) : k <= j].outcome
CallsOver == pc \in {"extracted", "supervised"}

\* C28 as stated: once extract_multiple_pdfs or _llm_supervision has returned, every
\* call of converter.convert or chain.ainvoke it made was attempted at most twice:
\* twice when its first attempt failed transiently, once when its first attempt was
\* refused as malformed.
C28_TransientRetriedOnce ==
    CallsOver =>
        \A call \in CallsMade :
            /\ Cardinality(AttemptsOf(call)) <= 2
            /\ FirstOutcome(call) = Failure("transient")
                   => Cardinality(AttemptsOf(call)) = 2
            /\ FirstOutcome(call) = Failure("malformed")
                   => Cardinality(AttemptsOf(call)) = 1

\* ---- extract_multiple_pdfs ----
FailedPdfs == {k \in 1..Len(visited) : IsFailure(visited[k].outcome)}
ConvertedPdfs == (1..Len(visited)) \ FailedPdfs
EventsOfPdf(k) ==
    _extract_events_from_text(visited[k].outcome.sections, args.extraction_patterns,
                              visited[k].target)
InData(event_data) == \E n \in 1..Len(ret.data) : ret.data[n] = event_data
ErrorsNaming(pdf_url) ==
    {n \in 1..Len(ret.metadata.processing_errors) :
         ret.metadata.processing_errors[n].pdf_url = pdf_url}
FailuresOf(pdf_url) == {k \in FailedPdfs : visited[k].target = pdf_url}

TestResponded == pc = "tested"
\* C30: test_fuente saves nothing and always answers: no step of it changes the
\* table of events or opens a database session (through which alone events,
\* sources and logs are written), and what it returns is a response whose estado
\* is success, warning or error, never an exception.
C30_TestSavesNothing ==
    /\ [][eventos' = eventos /\ session' = NoSession /\ runs' = runs]_vars
    /\ [](TestResponded =>
             /\ ret # Raised
             /\ ret.estado \in {"success", "warning", "error"})

\* the pipeline under test approved events, which a scheduled run would save, and
\* the store holds what it held
C30_ApprovedNotSaved ==
    /\ TestResponded
    /\ ret # Raised
    /\ ret.estado = "success"
    /\ ret.preview_eventos # <<>>
    /\ eventos = <<OtherSourceRow>>

\* ---- the LLM validation of the processing stage ----
\* process_data has returned to its node and the except block of _validate_with_llm
\* has run
ValidationFailed == pc = "after_processing" /\ "llm_validation" \in caught

\* C31: when the LLM validation of the processing stage fails, processed_events is
\* the list of the events that passed normalization, in their order, and
\* processing_errors is the normalization errors followed by one 'LLM validation
\* failed' entry.
C31_ValidationFailsOpen ==
    ValidationFailed =>
        /\ state.processed_events = NormalizeAll(state.scraped_data, state.mapeo_campos)
        /\ state.processing_errors
              = NormalizationErrors(state.scraped_data, state.mapeo_campos)
                \o <<Err("LLM validation failed")>>

\* the validation failed in a run where one scraped record normalized and another
\* did not
C31_FailedWithNormalizationError ==
    /\ ValidationFailed
    /\ state.processed_events # <<>>
    /\ Len(state.processing_errors) >= 2

\* the event is one of the list, field for field
OneOf(event, events) == \E i \in 1..Len(events) : events[i] = event
\* the invariant of a normalized event: a title of at least 3 characters, a start
\* date, a category of the fixed set
KeepsEventInvariant(e) ==
    /\ IsDict(e)
    /\ {"titulo", "fecha_inicio", "categoria"} \subseteq DOMAIN e
    /\ e.titulo.t = "str" /\ Len(e.titulo.s) >= MinTitleLen
    /\ e.fecha_inicio.t = "date"
    /\ IsValidCategory(e.categoria)
AllFromNormalizer(events, normalized) ==
    \A i \in 1..Len(events) :
        OneOf(events[i], normalized) /\ KeepsEventInvariant(events[i])

InUnitInterval(ratio) == ratio.den > 0 /\ 0 <= ratio.num /\ ratio.num <= ratio.den

TimesRun(node) == Cardinality({i \in 1..Len(visited) : visited[i] = node})
HasRun(node) == TimesRun(node) >= 1
\* the place of the node's run among the nodes run (0: it has not run)
PlaceOf(node) ==
    IF HasRun(node) THEN CHOOSE i \in 1..Len(visited) : visited[i] = node ELSE 0
GraphNodes == {"scraping", "processing", "supervision", "error_handler"}
\* no node runs twice; processing runs only after scraping, supervision only
\* after processing, and supervision and the error handler never both
StagesInOrder ==
    /\ \A node \in GraphNodes : TimesRun(node) <= 1
    /\ \A i \in 1..Len(visited) : visited[i] \in GraphNodes
    /\ HasRun("processing") => HasRun("scraping") /\ PlaceOf("scraping") < PlaceOf("processing")
    /\ HasRun("supervision")
          => HasRun("processing") /\ PlaceOf("processing") < PlaceOf("supervision")
    /\ pc \in {"processing", "after_processing"} => HasRun("scraping")
    /\ pc = "supervision" => HasRun("processing")
    /\ ~(HasRun("supervision") /\ HasRun("error_handler"))
OneEnding == HasRun("supervision") # HasRun("error_handler")

\* C32 (as amended): each stage runs at most once and in the order scraping,
\* processing, supervision; supervision and the error handler never both run; a
\* run whose graph reaches END has run exactly one of them, and a run that
\* graph.ainvoke cut short with an exception has run neither and returns the
\* decision ERROR from the except block of execute_scraping_pipeline.
C32_StageOrder ==
    /\ StagesInOrder
    /\ GraphCompleted => OneEnding
    /\ (pc = "returned" /\ ~GraphCompleted)
          => /\ ~HasRun("supervision") /\ ~HasRun("error_handler")
             /\ state.supervision_decision = "ERROR"

\* a run returned after scraping, processing and supervision, in this order
C32_ThreeStagesRun ==
    /\ pc = "returned"
    /\ visited = <<"scraping", "processing", "supervision">>

\* C32 as stated: the same order, and every run that returns has run exactly one
\* of supervision and the error handler.
C32_OneEndingInEveryRun ==
    /\ StagesInOrder
    /\ pc = "returned" => OneEnding


\* ---- one fingerprint, one stored event ----
\* two rows of one source carry the same fingerprint
SharedFingerprint(rows) ==
    \E a, b \in 1..Len(rows) :
        /\ a < b
        /\ rows[a].fuente_id = rows[b].fuente_id
        /\ rows[a].hash_contenido # PyNone
        /\ rows[a].hash_contenido = rows[b].hash_contenido

\* C34 as stated: after any sequence of completed runs, one after the other, the
\* store holds no two events of one source with the same content fingerprint,
\* also when the batch of a run holds the same (title, start date, location)
\* more than once.
C34_NoSharedFingerprint ==
    pc = "idle" => ~SharedFingerprint(eventos)


\* ---- two runs of one source at the same time ----
BothRunsDone == \A r \in TwoRuns : pc[r] = "done"

\* C33 as stated: when two runs of one source over overlapping content have both
\* ended, however their steps interleaved, the store holds no two events of the
\* source with the same content fingerprint.
C33_NoSharedFingerprintConcurrent ==
    BothRunsDone => ~SharedFingerprint(eventos)


\* ---- cleanup_duplicates ----
\* the positions of a table holding rows of the cleaned source
SSReyesRows(rows) == {k \in 1..Len(rows) : of_ssreyes(rows[k])}
\* the rows whose missing hash a cleanup set
Backfilled(run) == {k \in SSReyesRows(run.before) : ~Truthy(run.before[k].hash_contenido)}
\* after the cleanup no two rows of the source share a fingerprint; of the rows
\* with one fingerprint the first met is the one kept; a row alone with its
\* fingerprint is kept
CleanedUp(run) ==
    /\ \A a, b \in SSReyesRows(run.after) :
          a # b => run.after[a].hash_contenido # run.after[b].hash_contenido
    /\ \A k \in SSReyesRows(run.after) : Truthy(run.after[k].hash_contenido)
    /\ \A k \in SSReyesRows(run.marked) :
          k \in run.deleted
              <=> \E j \in SSReyesRows(run.marked) :
                     j < k /\ run.marked[j].hash_contenido = run.marked[k].hash_contenido
    /\ run.deleted \subseteq SSReyesRows(run.marked)
    /\ \A k \in 1..Len(run.before) :
          k \notin SSReyesRows(run.before) => run.marked[k] = run.before[k]
\* the fingerprint set on a row is the normalizer's for its title, date, location
BackfilledAsNormalizer(run) ==
    \A k \in Backfilled(run) :
        run.marked[k].hash_contenido
            = _generate_hash(incoming_like(run.before[k]))

\* C38 as stated: after a cleanup_duplicates that completed, no two stored events
\* of the source share a fingerprint, the first event met of each fingerprint is
\* the one that survives, no event alone with its fingerprint is deleted, and a
\* fingerprint set on an event that had none is the one the normalizer computes
\* for an incoming event of the same title, start date and location.
C38_CleanupLeavesOnePerFingerprint ==
    \A r \in 1..Len(runs) :
        runs[r].outcome = "committed" =>
            CleanedUp(runs[r]) /\ BackfilledAsNormalizer(runs[r])


\* ---- the log row of a run ----
RunningLogs == {k \in 1..Len(runs) : runs[k].estado = "running"}
\* _procesar_fuente is between the creation of its row and its return
RunUnderWay == pc \in {"pipeline", "finalizing", "handling"}
Finalized(log) == log.estado \in {"success", "error"} /\ log.fecha_fin # PyNone
CountersAgree(results) ==
    /\ results.total_ejecutadas = results.exitosas + results.errores
    /\ results.total_ejecutadas = Len(results.detalles)
\* every row is running or finalized, and a row is running only while its own
\* run is under way
LogsFollowRuns ==
    /\ \A k \in 1..Len(runs) : runs[k].estado = "running" \/ Finalized(runs[k])
    /\ RunUnderWay => RunningLogs = {session.log_id}
    /\ pc = "loop" => RunningLogs = {} /\ Len(runs) = session.results.total_ejecutadas
    /\ session # NoSession => CountersAgree(session.results)

====
